---------------------------- MODULE Spec2Model ----------------------------
(***************************************************************************)
(* AstroTrace: the scanner run loop (core/scanner.py), the event logger    *)
(* (core/logger.py), the event-bundle writer (core/bundles.py,             *)
(* core/sigmf.py), the main window's Start/Stop handling                   *)
(* (ui/main_window.py), the file and synthetic sources (SDR/sdr_ingest.py) *)
(* and the multi-channel demodulator (core/multi_demod.py).                *)
(*                                                                         *)
(* Scanner time is kept relative: since_active_started is monotonic()      *)
(* minus active_started_at, since_ui_update is monotonic() minus           *)
(* last_ui_update, saturated at 1/ui_max_fps (which is at least the        *)
(* ui_period it is compared with).  The clock advances inside the blocking *)
(* calls (read_samples, the sleeps and the transcription); one tick is the *)
(* shortest block read.                                                    *)
(***************************************************************************)
EXTENDS Integers, Sequences, FiniteSets, TLC

VARIABLES
    cfg,    \* ScannerThread configuration (constructor arguments)
    s,      \* ScannerThread.run: locals and fields
    o       \* effects of the current loop iteration (sink emissions, log_event
            \* and write_event_bundle calls, in order) and of the run

VARIABLES
    lg,     \* EventLogger class state: _global_events, _lock, the event dicts
    wk,     \* the workers calling log_event / recent_events
    held    \* the objects each caller kept from earlier calls

VARIABLES
    fs,     \* the files under bundle_root: path -> content
    bw      \* the write_event_bundle call in progress

VARIABLES
    win     \* SDRMainWindow: scanner_thread, the threads it started, the
            \* queued 'finished' notifications, the scan controls

VARIABLES
    fsrc    \* a FileSDRSource: file_data, file_ptr, and the block last returned

VARIABLES
    fl      \* a _build_frequency_list call: its inputs and the list returned

VARIABLES
    md      \* a MultiChannelDemod: its channels, the last process call

VARIABLES
    syn     \* a SyntheticSDRSource: _sample_index, the block last returned

svars == <<cfg, s, o>>
lvars == <<lg, wk, held>>
bvars == <<fs, bw>>
wvars == <<win>>
cvars == <<fsrc, fl, md, syn>>
vars == <<svars, lvars, bvars, wvars, cvars>>

---------------------------------------------------------------------------
(* Bounds and program constants                                            *)

\* longest block read, in ticks
MaxBlockTime == 2
\* longest dwell / hold sleep, in ticks
MaxSleep == 1
\* blocks followed from the source into the events' IQ
MaxReads == 7
\* sample_rate / block_size: shortest block reads in one second of wall time
BlocksPerSecond == 4

\* squelch_linear = 10 ** (squelch_db / 20.0), on the scale of Powers: one
\* unit is 1e-6 of full scale, so this is a squelch of -120 dBFS, the lowest
\* the window's squelch control provides
squelch_linear == 1
\* the 1e-6 added to the power before the logarithm is taken
log_floor == 1
quiet_threshold_blocks == 5
\* the period of one frame per second, the floor of max(ui_max_fps, 1.0), in
\* ticks
one_fps_period == 2
\* time.sleep(0.002) of the synthetic non-scan yield, in ticks
yield_sleep == 1
\* the hunt-mode dwell cap of 0.12 s, in ticks
hunt_dwell_max == 1

None == -1
Powers == 0 .. (squelch_linear + 1)
BlockTimes == 1 .. MaxBlockTime
SleepTimes == 0 .. MaxSleep
MaxEventChoices == {2, quiet_threshold_blocks + 2}
MinEventChoices == {0, 3}
PlanSizes == {1, 2}
\* create_sdr_source kinds: "file" stands for a file source given no filename,
\* "unknown" for a kind create_sdr_source does not know; "soapy", the other
\* hardware backend, appears in AudioConfigs only
SourceTypes == {"synthetic", "rtl", "file", "unknown"}
\* channels of a MultiChannelDemod
NumChannels == 2

Min(a, b) == IF a < b THEN a ELSE b
\* line 193: power_db = 20 * np.log10(power_linear + 1e-6); a level in dB is
\* written as the linear value it is the logarithm of (log10 is increasing,
\* so levels compare as these values do)
power_db(power_linear) == power_linear + log_floor
\* self.squelch_db, as a level: 20 * log10(squelch_linear)
squelch_db == squelch_linear
StrictlyIncreasing(seq) ==
    \A i, j \in 1 .. Len(seq) : (i < j) => (seq[i] < seq[j])
Range(seq) == {seq[i] : i \in 1 .. Len(seq)}
\* ui_period = 1.0 / max(ui_max_fps, 1.0), in ticks; cfg.ui_interval is
\* 1.0 / ui_max_fps
ui_period == Min(cfg.ui_interval, one_fps_period)

---------------------------------------------------------------------------
(* Helpers of the run loop                                                 *)

\* rtl/soapy calls may raise or hit end of stream; the synthetic source never does
Outcomes == IF cfg.source_type # "synthetic" THEN {"ok", "raise"} ELSE {"ok"}
\* create_sdr_source: the synthetic source is always built, a hardware backend
\* may be unavailable, a file source without filename and an unknown kind raise
CreateOutcomes ==
    CASE cfg.source_type = "synthetic" -> {"ok"}
      [] cfg.source_type \in {"rtl", "soapy"} -> {"ok", "raise"}
      [] OTHER -> {"raise"}
\* a sink (signal emit) either returns or raises
SinkOutcomes == {"ok", "raise"}
\* demodulator.demod either returns a non-empty chunk or raises; it returns
\* an empty chunk for a block of one sample, which SoapySDRSource.read_samples
\* may deliver (it returns as many samples as the stream gave)
DemodOutcomes ==
    IF cfg.source_type = "soapy" THEN {"ok", "empty", "raise"}
                                 ELSE {"ok", "raise"}
\* lines 200-205: the emissions for one multi-channel result
ChannelEmitsLevelOnly == <<"audio_level">>
ChannelEmits == <<"audio_frame", "audio_level">>
RECURSIVE Repeat(_, _)
Repeat(seq, k) == IF k = 0 THEN <<>> ELSE seq \o Repeat(seq, k - 1)

Count(tag) == Cardinality({i \in 1 .. Len(o.effects) : o.effects[i] = tag})

\* the wall clock moves on by d ticks: a new second has no directory yet
Clock(ob, d) ==
    IF ~ob.stamp.follow THEN ob
    ELSE [ob EXCEPT !.stamp.phase = (@ + d) % BlocksPerSecond,
                    !.stamp.dirs = IF ob.stamp.phase + d >= BlocksPerSecond
                                   THEN {} ELSE @]
\* bundles.py lines 40-43: bundle_dir is named by the second of event["time"]
\* and the frequency; mkdir(parents=True, exist_ok=True)
BundleDirTaken(ob, center_freq) ==
    [ob EXCEPT !.stamp.reused = @ \/ (ob.stamp.follow /\ center_freq \in ob.stamp.dirs),
               !.stamp.dirs = IF ob.stamp.follow THEN @ \cup {center_freq} ELSE @]

\* the monotonic clock moves on by d ticks
Advance(st, d) ==
    [st EXCEPT !.since_active_started = IF @ = None THEN None ELSE @ + d,
               !.since_ui_update = Min(@ + d, cfg.ui_interval)]

\* line 209: if power_linear > self.squelch_linear
OpensEventGe(p) == p >= squelch_linear
OpensEvent(p) == p > squelch_linear
IsQuietOrEqual(p) == p <= squelch_linear
IsQuiet(p) == p < squelch_linear
TooLong(elapsed) == elapsed >= cfg.max_event_seconds
\* line 244: if quiet_count >= quiet_threshold_blocks or too_long
ClosesEventQuietOnly == s.quiet_count >= quiet_threshold_blocks
ClosesEvent == s.quiet_count >= quiet_threshold_blocks \/ s.too_long
WritesBundle == cfg.save_bundles /\ s.event_elapsed >= cfg.min_event_seconds
SkipsBundle == cfg.save_bundles /\ s.event_elapsed < cfg.min_event_seconds

\* lines 245-247: active_signal = False; quiet_count = 0; recording_freq = freq
ClosedStaysActive(st) == [st EXCEPT !.quiet_count = 0, !.recording_freq = st.freq]
Closed(st) ==
    [st EXCEPT !.active_signal = FALSE, !.quiet_count = 0,
               !.recording_freq = st.freq]

\* an exception leaves run(): nothing after the raising statement is executed
Crashed(st) == [st EXCEPT !.pc = "crashed", !.raised_at = st.pc]
\* a call on the source object (a call after close() would be a use after close)
SourceCall(ob) == [ob EXCEPT !.sdr_after_close = @ \/ s.sdr = "closed"]

\* line 176: self.sdr.read_samples(self.block_size)
ReadCall(ob) ==
    [SourceCall(ob) EXCEPT
        !.reads_after_request = IF s.interruption THEN Min(@ + 1, 2) ELSE @]

\* lines 111-113: emit the diagnostic and return
CreateFailedContinues(st) == [st EXCEPT !.pc = "info"]
CreateFailed(st) == [st EXCEPT !.pc = "returned"]
\* lines 279-281: except Exception: pass
BundleFailureRaises(st) == Crashed(st)
BundleFailure(st) == [st EXCEPT !.pc = "hold"]

\* line 257: transcribed_text = "[Transcription Error]"
TranscriptionError == "[Transcription Error]"

\* lines 181-183: the hunt-mode clamp of self.dwell_seconds, after the read
HuntClamps == cfg.hunt_mode /\ ~s.active_signal /\ cfg.scan_mode

\* the blocks of this run are followed
Capturing == o.cap.limit > 0
\* line 222: 'if' (not 'elif'): the block that opened the event is recorded
AfterOpenSkips == "advance"
AfterOpen == "record"
\* line 263: "duration_s": event_elapsed
RecordedDurationNow == s.since_active_started
RecordedDuration == s.event_elapsed

\* line 172: if self.scan_mode and not active_signal
Retunes == cfg.scan_mode /\ ~s.active_signal
\* line 299: if self.scan_mode and not active_signal
StepsIndexAlways == cfg.scan_mode
StepsIndex == cfg.scan_mode /\ ~s.active_signal

\* line 300: current_index = (current_index + 1) % num_freqs
NextIndexNoWrap(idx) == idx + 1
NextIndex(idx) == (idx + 1) % cfg.num_freqs

\* no event record was logged in this iteration
NoRecord == [freq |-> None, power_db |-> None, duration_s |-> None]

NoEffects ==
    [effects |-> <<>>, entered |-> FALSE, closing |-> FALSE, below_run |-> 0,
     sdr_closes |-> 0, sdr_after_close |-> FALSE, ctor |-> <<>>,
     np_freq |-> None,
     \* read_samples calls made after requestInterruption() (2: two or more)
     reads_after_request |-> 0,
     \* the source's centre frequency (an index of the plan): start_freq at
     \* construction, then the last tune; its value when the event began
     tuned |-> 0, tuned_at_open |-> None,
     \* IDLE->ACTIVE transitions minus log_event calls of the run
     open_events |-> 0,
     \* the record logged in this iteration: frequency_hz and the metadata
     record |-> NoRecord,
     \* the blocks of the run, numbered in the order they were read: the first
     \* 'limit' of them are followed into iq_buffer (lines 213, 223, 291) and
     \* into the iq handed to write_event_bundle (line 269); 'trigger' is the
     \* block that opened the event, 'used' the blocks of the events closed
     \* before, 'last_power' the power of the block last appended
     cap |-> [limit |-> 0, reads |-> 0, trigger |-> None, iq_buffer |-> <<>>,
              iq_data |-> <<>>, used |-> {}, last_power |-> None],
     \* the wall clock of datetime.now() (logger.py line 45), when followed:
     \* 'phase' is the time since the current second began, 'dirs' the
     \* bundle directories named by a timestamp of the current second (by
     \* their frequency), 'reused' whether a write_event_bundle call was given
     \* a directory an earlier event of the run had written to
     stamp |-> [follow |-> FALSE, phase |-> 0, dirs |-> {}, reused |-> FALSE],
     \* the multi-channel step of the iteration: "none", "ran" or "failed"
     multi |-> "none",
     \* a sink raised inside one of the guarded emits of the iteration
     sink_failed |-> FALSE,
     \* the time.sleep calls of the iteration
     sleeps |-> <<>>,
     \* the run's events, numbered in the order they closed: the first 'limit'
     \* of them are followed into the ring, the event sink and the bundles
     events |-> [limit |-> 0, closed |-> 0, cur |-> None, ring |-> <<>>,
                 emitted |-> <<>>, bundled |-> <<>>]]
\* lines 89-92 of __init__: now_playing.emit(self.start_freq, self.mode);
\* start_freq is plan[0]
Constructed == [NoEffects EXCEPT !.ctor = << <<"now_playing", 0>> >>]

\* logger.py line 53: self._global_events.append(event)
GlobalEventsPrepend(ring, event) == <<event>> \o ring
GlobalEventsAppend(ring, event) == Append(ring, event)
\* the event being closed is one of those followed
Followed == o.events.cur # None

---------------------------------------------------------------------------
(* ScannerThread.run                                                       *)

\* _build_frequency_list: outside scan mode the plan is [start_freq]
PlanFits(c) == c.scan_mode \/ c.num_freqs = 1

\* the constructor arguments of the runs of Spec: transcription and
\* hunt mode are off (the defaults)
Configs ==
    {c \in [scan_mode : BOOLEAN, save_bundles : BOOLEAN,
            max_event_seconds : MaxEventChoices,
            min_event_seconds : MinEventChoices,
            num_freqs : PlanSizes, source_type : SourceTypes,
            enable_transcription : {FALSE}, hunt_mode : {FALSE},
            dwell_seconds : SleepTimes, ui_interval : {one_fps_period},
            multi_channels : {0}] :
        PlanFits(c)}
\* constructor arguments with the optional features switched on and off
OptionConfigs ==
    {c \in [scan_mode : BOOLEAN, save_bundles : {TRUE},
            max_event_seconds : {2},
            min_event_seconds : MinEventChoices,
            num_freqs : PlanSizes, source_type : {"rtl"},
            enable_transcription : BOOLEAN, hunt_mode : BOOLEAN,
            dwell_seconds : 0 .. (hunt_dwell_max + 1),
            ui_interval : 1 .. (one_fps_period + 1),
            multi_channels : {0}] :
        PlanFits(c) /\ (c.scan_mode => c.num_freqs = 2)}

\* line 196: if self.multi_demod
AfterSpectrum == IF cfg.multi_channels > 0 THEN "multi" ELSE "squelch"

ScannerStartWith(configs, ob) ==
    /\ cfg \in configs
    \* last_ui_update = 0.0: the first block is a full ui_period after it
    /\ s = [pc |-> "create", interruption |-> FALSE, sdr |-> "none",
            logger_open |-> TRUE, current_index |-> 0, freq |-> None,
            active_signal |-> FALSE, recording_freq |-> None,
            quiet_count |-> 0, since_active_started |-> None,
            since_ui_update |-> cfg.ui_interval, power_linear |-> 0,
            too_long |-> FALSE, event_elapsed |-> 0,
            transcriber |-> FALSE, text |-> "",
            dwell_seconds |-> cfg.dwell_seconds, audio_buffer |-> FALSE,
            \* the step at which an exception left run()
            raised_at |-> ""]
    /\ o = ob

ScannerStartFollowing(configs, limit) ==
    ScannerStartWith(configs, [Constructed EXCEPT !.events.limit = limit])
ScannerStartCapturing(configs, limit) ==
    ScannerStartWith(configs, [Constructed EXCEPT !.cap.limit = limit])

ScannerStart(configs) == ScannerStartFollowing(configs, 0)

ScannerInit == ScannerStart(Configs)

RequestInterruption ==
    /\ s.pc \notin {"done", "crashed", "returned"}
    /\ ~s.interruption
    /\ s' = [s EXCEPT !.interruption = TRUE]
    /\ UNCHANGED <<cfg, o, lvars, bvars, wvars, cvars>>

CreateSource ==
    /\ s.pc = "create"
    /\ \E r \in CreateOutcomes, sink \in SinkOutcomes :
          IF r = "ok"
          THEN /\ sink = "ok"
               /\ s' = [s EXCEPT !.sdr = "open", !.pc = "info"]
               /\ UNCHANGED o
          ELSE /\ s' = IF sink = "ok" THEN CreateFailed(s) ELSE Crashed(s)
               /\ o' = [o EXCEPT !.effects = Append(@, "diag")]
    /\ UNCHANGED <<cfg, lvars, bvars, wvars, cvars>>

DeviceInfo ==
    /\ s.pc = "info"
    /\ \E info \in Outcomes, first \in SinkOutcomes, second \in SinkOutcomes :
          IF info = "ok" /\ first = "ok"
          THEN /\ second = "ok"
               /\ s' = [s EXCEPT !.pc = "transcriber"]
               /\ o' = [SourceCall(o) EXCEPT !.effects = Append(@, "device_info")]
          ELSE /\ info = "raise" => first = "ok"
               /\ s' = IF second = "ok" THEN [s EXCEPT !.pc = "transcriber"]
                                        ELSE Crashed(s)
               /\ o' = [SourceCall(o) EXCEPT
                           !.effects = IF info = "raise"
                                       THEN Append(@, "device_info")
                                       ELSE @ \o <<"device_info", "device_info">>]
    /\ UNCHANGED <<cfg, lvars, bvars, wvars, cvars>>

\* lines 119-134: the optional transcriber; when its construction fails a
\* diagnostic string is emitted (unguarded) and the run goes on without it
TranscriberInit ==
    /\ s.pc = "transcriber"
    /\ IF cfg.enable_transcription /\ cfg.source_type # "synthetic"
       THEN \E r \in {"ok", "raise"}, sink \in SinkOutcomes :
               IF r = "ok"
               THEN /\ sink = "ok"
                    /\ s' = [s EXCEPT !.transcriber = TRUE, !.pc = "loop"]
                    /\ UNCHANGED o
               ELSE /\ s' = IF sink = "ok" THEN [s EXCEPT !.pc = "loop"]
                                           ELSE Crashed(s)
                    /\ o' = [o EXCEPT !.effects = Append(@, "diag")]
       ELSE /\ s' = [s EXCEPT !.pc = "loop"]
            /\ UNCHANGED o
    /\ UNCHANGED <<cfg, lvars, bvars, wvars, cvars>>

LoopHead ==
    /\ s.pc = "loop"
    /\ IF s.interruption
       THEN /\ s' = [s EXCEPT !.pc = "exit"]
            /\ UNCHANGED o
       ELSE /\ s' = [s EXCEPT !.freq = s.current_index,
                              !.pc = IF Retunes THEN "tune" ELSE "read"]
            /\ o' = [o EXCEPT !.effects = <<>>, !.entered = FALSE,
                              !.closing = FALSE, !.np_freq = None,
                              !.sink_failed = FALSE, !.record = NoRecord,
                              !.multi = "none",
                              !.cap.iq_data = <<>>,
                              !.sleeps = <<>>, !.events.cur = None]
    /\ UNCHANGED <<cfg, lvars, bvars, wvars, cvars>>

Tune ==
    /\ s.pc = "tune"
    /\ \E r \in Outcomes :
          /\ s' = IF r = "ok" THEN [s EXCEPT !.pc = "dwell"] ELSE Crashed(s)
          /\ o' = [SourceCall(o) EXCEPT !.tuned = IF r = "ok" THEN s.freq ELSE @]
    /\ UNCHANGED <<cfg, lvars, bvars, wvars, cvars>>

Dwell ==
    /\ s.pc = "dwell"
    /\ s' = [Advance(s, s.dwell_seconds) EXCEPT !.pc = "read"]
    /\ o' = [Clock(o, s.dwell_seconds) EXCEPT !.sleeps = Append(@, "dwell")]
    /\ UNCHANGED <<cfg, lvars, bvars, wvars, cvars>>

ReadSamples ==
    /\ s.pc = "read"
    /\ Capturing => o.cap.reads < o.cap.limit
    /\ \/ \E p \in Powers, d \in BlockTimes :
             /\ s' = [Advance(s, d) EXCEPT
                         !.power_linear = p,
                         !.dwell_seconds = IF HuntClamps
                                           THEN Min(@, hunt_dwell_max) ELSE @,
                         !.pc = "spectrum"]
             /\ o' = [Clock(ReadCall(o), d) EXCEPT
                         !.below_run = IF p < squelch_linear
                                       THEN Min(@ + 1, quiet_threshold_blocks)
                                       ELSE 0,
                         !.cap.reads = IF Capturing THEN @ + 1 ELSE @]
       \/ /\ cfg.source_type # "synthetic"
          /\ \E r \in {"empty", "raise"} :
                s' = IF r = "empty" THEN [s EXCEPT !.pc = "exit"] ELSE Crashed(s)
          /\ o' = ReadCall(o)
    /\ UNCHANGED <<cfg, lvars, bvars, wvars, cvars>>

Spectrum ==
    /\ s.pc = "spectrum"
    /\ IF s.since_ui_update >= ui_period
       THEN /\ \E r \in SinkOutcomes :
                 s' = IF r = "ok"
                      THEN [s EXCEPT !.since_ui_update = 0, !.pc = AfterSpectrum]
                      ELSE Crashed(s)
            /\ o' = [o EXCEPT !.effects = Append(@, "spectrum")]
       ELSE /\ s' = [s EXCEPT !.pc = AfterSpectrum]
            /\ UNCHANGED o
    /\ UNCHANGED <<cfg, lvars, bvars, wvars, cvars>>

\* lines 206-207: except Exception: pass
MultiFailureRaises(st) == Crashed(st)
MultiFailure(st) == [st EXCEPT !.pc = "squelch"]

\* lines 196-207: process returns k results or raises; each result's audio
\* is emitted (a raising sink is passed over) and then its RMS; a raising
\* audio_level sink ends the loop over the results
MultiDemod ==
    /\ s.pc = "multi"
    /\ \E r \in {"ok", "raise"}, k \in 0 .. cfg.multi_channels,
          sink \in {"ok", "frame", "level"} :
          \E last \in (IF sink = "level" THEN 1 .. k ELSE {k}) :
              IF r = "raise"
              THEN /\ k = 0 /\ sink = "ok"
                   /\ s' = MultiFailure(s)
                   /\ o' = [o EXCEPT !.multi = "failed"]
              ELSE /\ s' = IF sink = "level" THEN MultiFailure(s)
                                             ELSE [s EXCEPT !.pc = "squelch"]
                   /\ o' = [o EXCEPT
                               !.effects = @ \o Repeat(ChannelEmits, last),
                               !.sink_failed = @ \/ (sink # "ok"),
                               !.multi = IF sink = "level" THEN "failed"
                                                           ELSE "ran"]
    /\ UNCHANGED <<cfg, lvars, bvars, wvars, cvars>>

Squelch ==
    /\ s.pc = "squelch"
    /\ IF ~s.active_signal /\ OpensEvent(s.power_linear)
       THEN /\ s' = [s EXCEPT !.active_signal = TRUE, !.recording_freq = s.freq,
                              !.quiet_count = 0, !.since_active_started = 0,
                              !.audio_buffer = FALSE, !.pc = AfterOpen]
            /\ o' = [o EXCEPT !.entered = TRUE,
                              !.effects = Append(@, "now_playing"),
                              !.np_freq = s.freq,
                              !.tuned_at_open = o.tuned,
                              !.open_events = @ + 1,
                              !.cap.trigger = IF Capturing THEN o.cap.reads
                                                           ELSE @,
                              !.cap.iq_buffer = <<>>]
       ELSE /\ s' = [s EXCEPT !.pc = "record"]
            /\ UNCHANGED o
    /\ UNCHANGED <<cfg, lvars, bvars, wvars, cvars>>

\* line 223: iq_buffer.append(np.copy(samples))
IqAppended(ob) ==
    IF Capturing
    THEN [ob EXCEPT !.cap.iq_buffer = Append(@, ob.cap.reads),
                    !.cap.last_power = s.power_linear]
    ELSE ob

Record ==
    /\ s.pc = "record"
    /\ IF s.active_signal /\ s.freq = s.recording_freq
       THEN \E demod \in DemodOutcomes, sink \in SinkOutcomes :
               IF demod = "raise"
               THEN /\ s' = Crashed(s)
                    /\ o' = IqAppended(o)
               ELSE IF demod = "empty"
               THEN /\ sink = "ok"
                    /\ s' = [s EXCEPT !.pc = "quiet"]
                    /\ o' = IqAppended(o)
               ELSE /\ s' = [s EXCEPT !.audio_buffer = TRUE, !.pc = "quiet"]
                    /\ o' = [IqAppended(o) EXCEPT
                                !.effects = IF sink = "ok"
                                            THEN @ \o <<"audio_level", "audio_frame">>
                                            ELSE Append(@, "audio_level"),
                                !.sink_failed = @ \/ (sink # "ok")]
       ELSE /\ s' = [s EXCEPT !.pc = "advance"]
            /\ UNCHANGED o
    /\ UNCHANGED <<cfg, lvars, bvars, wvars, cvars>>

QuietCount ==
    /\ s.pc = "quiet"
    /\ LET q == IF IsQuiet(s.power_linear) THEN s.quiet_count + 1 ELSE 0
       IN  s' = [s EXCEPT !.quiet_count = q,
                          !.too_long = (s.since_active_started # None
                                        /\ TooLong(s.since_active_started)),
                          !.pc = "decide"]
    /\ UNCHANGED <<cfg, o, lvars, bvars, wvars, cvars>>

Decide ==
    /\ s.pc = "decide"
    /\ IF ClosesEvent
       THEN /\ s' = [Closed(s) EXCEPT
                              !.event_elapsed = IF s.since_active_started # None
                                                THEN s.since_active_started ELSE 0,
                              !.pc = "transcribe"]
            /\ o' = [o EXCEPT
                        !.closing = TRUE,
                        !.events.closed = IF @ < o.events.limit THEN @ + 1 ELSE @,
                        !.events.cur = IF o.events.closed < o.events.limit
                                       THEN o.events.closed + 1 ELSE None]
       ELSE /\ s' = [s EXCEPT !.pc = "advance"]
            /\ UNCHANGED o
    /\ UNCHANGED <<cfg, lvars, bvars, wvars, cvars>>

\* lines 252-257: transcribed_text, when audio_data is not empty and there is
\* a transcriber
Transcribe ==
    /\ s.pc = "transcribe"
    /\ IF s.transcriber /\ s.audio_buffer
       THEN \E r \in {"ok", "raise"}, d \in SleepTimes :
               /\ s' = [Advance(s, d) EXCEPT
                              !.text = IF r = "ok" THEN "voice"
                                                  ELSE TranscriptionError,
                              !.pc = "log"]
               /\ o' = Clock(o, d)
       ELSE /\ s' = [s EXCEPT !.text = "", !.pc = "log"]
            /\ UNCHANGED o
    /\ UNCHANGED <<cfg, lvars, bvars, wvars, cvars>>

LogEvent ==
    /\ s.pc = "log"
    /\ \E csv \in {"ok", "raise"} :
          s' = IF csv = "ok" THEN [s EXCEPT !.pc = "emit_event"] ELSE Crashed(s)
    /\ o' = [o EXCEPT !.effects = Append(@, "log"),
                      !.open_events = @ - 1,
                      !.record = [freq |-> s.recording_freq,
                                  power_db |-> power_db(s.power_linear),
                                  duration_s |-> RecordedDuration],
                      !.events.ring = IF Followed
                                      THEN GlobalEventsAppend(@, o.events.cur)
                                      ELSE @]
    /\ UNCHANGED <<cfg, lvars, bvars, wvars, cvars>>

EmitEvent ==
    /\ s.pc = "emit_event"
    /\ \E r \in SinkOutcomes :
          s' = IF r = "ok" THEN [s EXCEPT !.pc = "bundle"] ELSE Crashed(s)
    /\ o' = [o EXCEPT !.effects = Append(@, "event"),
                      !.events.emitted = IF Followed THEN Append(@, o.events.cur)
                                                     ELSE @]
    /\ UNCHANGED <<cfg, lvars, bvars, wvars, cvars>>

Bundle ==
    /\ s.pc = "bundle"
    /\ IF WritesBundle
       THEN \E io \in {"ok", "fail"} :
               /\ s' = IF io = "ok" THEN [s EXCEPT !.pc = "hold"]
                                    ELSE BundleFailure(s)
               /\ o' = [BundleDirTaken(o, s.recording_freq) EXCEPT
                           !.effects = IF io = "ok"
                                       THEN Append(@, "bundle")
                                       ELSE @ \o <<"bundle", "bundle_error">>,
                           !.events.bundled = IF Followed
                                              THEN Append(@, o.events.cur)
                                              ELSE @,
                           !.cap.iq_data = o.cap.iq_buffer]
       ELSE IF SkipsBundle
            THEN /\ \E r \in SinkOutcomes :
                      s' = IF r = "ok" THEN [s EXCEPT !.pc = "hold"] ELSE Crashed(s)
                 /\ o' = [o EXCEPT !.effects = Append(@, "skipped")]
            ELSE /\ s' = [s EXCEPT !.pc = "hold"]
                 /\ UNCHANGED o
    /\ UNCHANGED <<cfg, lvars, bvars, wvars, cvars>>

Hold ==
    /\ s.pc = "hold"
    /\ IF cfg.scan_mode
       THEN \E d \in SleepTimes :
               /\ s' = [Advance(s, d) EXCEPT !.pc = "reset"]
               /\ o' = [Clock(o, d) EXCEPT !.sleeps = Append(@, "hold")]
       ELSE /\ s' = [s EXCEPT !.pc = "reset"]
            /\ UNCHANGED o
    /\ UNCHANGED <<cfg, lvars, bvars, wvars, cvars>>

Reset ==
    /\ s.pc = "reset"
    /\ s' = [s EXCEPT !.recording_freq = None, !.since_active_started = None,
                      !.audio_buffer = FALSE, !.pc = "advance"]
    /\ o' = [o EXCEPT !.effects = Append(@, "level0"),
                      !.cap.used = @ \cup Range(o.cap.iq_buffer),
                      !.cap.iq_buffer = <<>>, !.cap.last_power = None]
    /\ UNCHANGED <<cfg, lvars, bvars, wvars, cvars>>

AdvanceIndex ==
    /\ s.pc = "advance"
    /\ LET idx == IF StepsIndex
                  THEN NextIndex(s.current_index)
                  ELSE s.current_index
           yields == cfg.source_type = "synthetic" /\ ~cfg.scan_mode
           d == IF yields THEN yield_sleep ELSE 0
       IN  /\ s' = [Advance(s, d) EXCEPT !.current_index = idx, !.pc = "loop"]
           /\ o' = [Clock(o, d) EXCEPT
                       !.sleeps = IF yields THEN Append(@, "yield") ELSE @]
    /\ UNCHANGED <<cfg, lvars, bvars, wvars, cvars>>

RunExit ==
    /\ s.pc = "exit"
    /\ IF s.sdr # "none"
       THEN /\ \E r \in Outcomes :
                 s' = IF r = "ok"
                      THEN [s EXCEPT !.sdr = "closed", !.logger_open = FALSE,
                                     !.pc = "done"]
                      ELSE Crashed(s)
            /\ o' = [SourceCall(o) EXCEPT !.sdr_closes = @ + 1]
       ELSE /\ s' = [s EXCEPT !.logger_open = FALSE, !.pc = "done"]
            /\ UNCHANGED o
    /\ UNCHANGED <<cfg, lvars, bvars, wvars, cvars>>

Run ==
    \/ CreateSource \/ DeviceInfo \/ LoopHead \/ Tune \/ Dwell \/ ReadSamples
    \/ Spectrum \/ Squelch \/ Record \/ QuietCount \/ Decide \/ LogEvent
    \/ TranscriberInit \/ Transcribe
    \/ EmitEvent \/ Bundle \/ Hold \/ Reset \/ AdvanceIndex \/ RunExit

---------------------------------------------------------------------------
(* EventLogger: log_event and recent_events called by several workers      *)

\* workers calling into the logger
NumWorkers == 2
\* log_event calls made in one run of the model
MaxLogCalls == 2
\* largest n passed to recent_events
MaxN == 1

Workers == 1 .. NumWorkers
Instances == {1, 2}
Refs == 1 .. MaxLogCalls
Texts == {"voice"}
\* the lock object EventLogger._lock (class attribute); 1, 2 would be per-instance locks
ClassLock == 0
LockIds == {ClassLock} \cup Instances

\* seq[-n:] of a Python list
PySliceLast(seq, n) ==
    LET len == Len(seq)
        start == IF -n < 0 THEN (IF len - n > 0 THEN len - n ELSE 0)
                 ELSE Min(-n, len)
    IN  SubSeq(seq, start + 1, len)

\* a lock created per instance (self._lock = threading.Lock() in __init__)
LockOfInstance(w) == wk[w].inst
\* self._lock / cls._lock: the attribute resolves to the class-level lock
LockOf(w) == ClassLock

NoCalls == [w \in Workers |-> [ev |-> None, lst |-> <<>>]]

LoggerInit ==
    /\ lg = [ring |-> <<>>, logged |-> <<>>, heap |-> [r \in Refs |-> None],
             locks |-> [l \in LockIds |-> 0], calls |-> 0]
    /\ \E inst \in [Workers -> Instances] :
          wk = [w \in Workers |->
                  [pc |-> "idle", inst |-> inst[w], cur |-> None, n |-> None,
                   ret |-> <<>>]]
    /\ held = NoCalls

\* lines 45-50: build the event dict (self.events, the instance's own list of
\* the same dicts, is never read and is left out)
LogEventBuild(w) ==
    /\ wk[w].pc = "idle"
    /\ lg.calls < MaxLogCalls
    /\ \E text \in Texts :
          LET ref == lg.calls + 1 IN
          /\ lg' = [lg EXCEPT !.calls = ref,
                              !.heap[ref] = [freq |-> 0, text |-> text]]
          /\ wk' = [wk EXCEPT ![w].pc = "lock", ![w].cur = ref]
    /\ UNCHANGED <<held, svars, bvars, wvars, cvars>>

\* line 52: with self._lock
LogEventAcquire(w) ==
    /\ wk[w].pc = "lock"
    /\ lg.locks[LockOf(w)] = 0
    /\ lg' = [lg EXCEPT !.locks[LockOf(w)] = w]
    /\ wk' = [wk EXCEPT ![w].pc = "append"]
    /\ UNCHANGED <<held, svars, bvars, wvars, cvars>>

\* line 53: self._global_events.append(event)
LogEventAppend(w) ==
    /\ wk[w].pc = "append"
    /\ lg' = [lg EXCEPT !.ring = Append(@, wk[w].cur),
                        !.logged = Append(@, [ref |-> wk[w].cur,
                                              rec |-> lg.heap[wk[w].cur]])]
    /\ wk' = [wk EXCEPT ![w].pc = "unlock"]
    /\ UNCHANGED <<held, svars, bvars, wvars, cvars>>

\* leaving the with block
LogEventRelease(w) ==
    /\ wk[w].pc = "unlock"
    /\ lg' = [lg EXCEPT !.locks[LockOf(w)] = 0]
    /\ wk' = [wk EXCEPT ![w].pc = "journal"]
    /\ UNCHANGED <<held, svars, bvars, wvars, cvars>>

\* lines 55-70: the CSV row (unguarded), the JSONL line and the index hook
\* (both guarded), return event; a CSV failure leaves log_event as an exception
LogEventJournal(w) ==
    /\ wk[w].pc = "journal"
    /\ \E csv \in {"ok", "raise"} :
          wk' = IF csv = "ok"
                THEN [wk EXCEPT ![w].pc = "ret_event"]
                ELSE [wk EXCEPT ![w].pc = "idle", ![w].cur = None]
    /\ UNCHANGED <<lg, held, svars, bvars, wvars, cvars>>

\* line 74: with cls._lock
RecentEventsAcquire(w) ==
    /\ wk[w].pc = "idle"
    /\ lg.locks[ClassLock] = 0
    /\ \E n \in 0 .. MaxN :
          wk' = [wk EXCEPT ![w].pc = "r_copy", ![w].n = n]
    /\ lg' = [lg EXCEPT !.locks[ClassLock] = w]
    /\ UNCHANGED <<held, svars, bvars, wvars, cvars>>

\* line 75: list(cls._global_events[-n:]), a new list of the same dicts
RecentEventsCopy(w) ==
    /\ wk[w].pc = "r_copy"
    /\ wk' = [wk EXCEPT ![w].pc = "r_unlock",
                        ![w].ret = PySliceLast(lg.ring, wk[w].n)]
    /\ UNCHANGED <<lg, held, svars, bvars, wvars, cvars>>

RecentEventsRelease(w) ==
    /\ wk[w].pc = "r_unlock"
    /\ lg' = [lg EXCEPT !.locks[ClassLock] = 0]
    /\ wk' = [wk EXCEPT ![w].pc = "ret_list"]
    /\ UNCHANGED <<held, svars, bvars, wvars, cvars>>

\* the call is over and its result is dropped
CallEnds(w) ==
    /\ wk[w].pc \in {"ret_event", "ret_list"}
    /\ wk' = [wk EXCEPT ![w].pc = "idle", ![w].cur = None, ![w].n = None,
                        ![w].ret = <<>>]
    /\ UNCHANGED <<lg, held, svars, bvars, wvars, cvars>>

\* the logger's own operations
LoggerCalls ==
    \E w \in Workers :
        \/ LogEventBuild(w) \/ LogEventAcquire(w) \/ LogEventAppend(w)
        \/ LogEventRelease(w) \/ LogEventJournal(w)
        \/ RecentEventsAcquire(w) \/ RecentEventsCopy(w)
        \/ RecentEventsRelease(w) \/ CallEnds(w)

\* the caller keeps the dict log_event returned (scanner.py line 258: event = ...)
CallerKeepsEvent(w) ==
    /\ wk[w].pc = "ret_event"
    /\ held' = [held EXCEPT ![w].ev = wk[w].cur]
    /\ wk' = [wk EXCEPT ![w].pc = "idle", ![w].cur = None]
    /\ UNCHANGED <<lg, svars, bvars, wvars, cvars>>

\* the caller keeps the list recent_events returned
CallerKeepsList(w) ==
    /\ wk[w].pc = "ret_list"
    /\ held' = [held EXCEPT ![w].lst = wk[w].ret]
    /\ wk' = [wk EXCEPT ![w].pc = "idle", ![w].n = None, ![w].ret = <<>>]
    /\ UNCHANGED <<lg, svars, bvars, wvars, cvars>>

\* the dicts a caller holds: the event log_event returned, the entries of its list
Held(w) ==
    (IF held[w].ev = None THEN {} ELSE {held[w].ev})
        \cup {held[w].lst[i] : i \in 1 .. Len(held[w].lst)}

\* a caller writes into an event dict it holds: event["text"] = ...
CallerEditsEvent(w) ==
    /\ \E ref \in Held(w) :
          /\ lg.heap[ref].text # "edited"
          /\ lg' = [lg EXCEPT !.heap[ref].text = "edited"]
    /\ UNCHANGED <<wk, held, svars, bvars, wvars, cvars>>

\* a caller modifies the list it got from recent_events: del lst[0]
CallerEditsList(w) ==
    /\ held[w].lst # <<>>
    /\ held' = [held EXCEPT ![w].lst = Tail(@)]
    /\ UNCHANGED <<lg, wk, svars, bvars, wvars, cvars>>

\* what callers may do with the objects they were handed
CallerEdits ==
    \E w \in Workers :
        \/ CallerKeepsEvent(w) \/ CallerKeepsList(w)
        \/ CallerEditsEvent(w) \/ CallerEditsList(w)

---------------------------------------------------------------------------
(* bundles.write_event_bundle and sigmf.write_sigmf on a file system        *)

\* write_event_bundle calls made in one run of the model
MaxBundleCalls == 2

Absent == <<"absent", 0>>
\* a file just opened with mode "w", and one whose write failed part-way
Truncated == <<"empty", 0>>
Partial == <<"partial", 0>>
FileNames == {"event.json", "capture.sigmf-data", "capture.sigmf-meta",
              "manifest.json"}
\* event["time"] values (one second each) and centre frequencies in Hz
Times == {0}
Freqs == {100000000, 100000400, 100001000}
Events == [time : Times, freq : Freqs, duration_s : {1, 2}]
IQs == {<<>>, <<7>>, <<7, 9>>}

\* f"{ts.replace(':','').replace(' ','_')}_{freq_mhz:.3f}MHz": the second of the
\* timestamp and the frequency rounded to 0.001 MHz
BundleName(ts, center_freq) == <<ts, (center_freq + 500) \div 1000>>
BundleDirs == {BundleName(e.time, e.freq) : e \in Events}
Paths == BundleDirs \X FileNames

\* json.dump / json.load of an event record or a manifest
JsonDump(v) == <<"json", v>>
JsonLoad(c) == c[2]
IsJson(c) == c[1] = "json"
\* iq.tofile of complex64 samples
ToFile(iq) == <<"cf32_le", iq>>
\* _sha256_file: the digest of a file's bytes (collision-free)
Sha256File(path) == <<"sha256", fs.files[path]>>

BundleInit ==
    /\ fs = [dirs |-> {}, files |-> [p \in Paths |-> Absent]]
    /\ bw = [pc |-> "idle", calls |-> 0, event |-> None, iq |-> <<>>,
             save_sigmf |-> FALSE, dir |-> None, manifest |-> None,
             written |-> <<>>, hashed |-> {}]

IoOutcomes == {"ok", "fail"}
\* an I/O failure leaves write_event_bundle as an exception
Aborted(b) == [b EXCEPT !.pc = "idle"]
Put(path, content) == fs' = [fs EXCEPT !.files[path] = content]
\* the call has written to (opened for writing, dumped into) the file
Wrote(b, name) == [b EXCEPT !.written = Append(@, name)]
\* bundles.py line 60: if save_sigmf and iq is not None and iq.size > 0
WritesSigmfAlways(b) == b.save_sigmf
WritesSigmf(b) == b.save_sigmf /\ Len(b.iq) > 0

\* lines 24-44: the call, bundle_dir and mkdir(parents=True, exist_ok=True)
WriteEventBundle ==
    /\ bw.pc = "idle"
    /\ bw.calls < MaxBundleCalls
    /\ \E event \in Events, iq \in IQs, save \in BOOLEAN, io \in IoOutcomes :
          LET dir == BundleName(event.time, event.freq) IN
          IF io = "ok"
          THEN /\ bw' = [bw EXCEPT !.pc = "open_event", !.calls = @ + 1,
                                   !.event = event, !.iq = iq,
                                   !.save_sigmf = save, !.dir = dir,
                                   !.manifest = None, !.written = <<>>,
                                   !.hashed = {}]
               /\ fs' = [fs EXCEPT !.dirs = @ \cup {dir}]
          ELSE /\ bw' = [bw EXCEPT !.calls = @ + 1]
               /\ UNCHANGED fs
    /\ UNCHANGED <<svars, lvars, wvars, cvars>>

\* line 47: event_path.open("w")
OpenEventJson ==
    /\ bw.pc = "open_event"
    /\ \E io \in IoOutcomes :
          IF io = "ok"
          THEN /\ Put(<<bw.dir, "event.json">>, Truncated)
               /\ bw' = [Wrote(bw, "event.json") EXCEPT !.pc = "dump_event"]
          ELSE /\ bw' = Aborted(bw)
               /\ UNCHANGED fs
    /\ UNCHANGED <<svars, lvars, wvars, cvars>>

\* line 48: json.dump(event, f, indent=2)
DumpEventJson ==
    /\ bw.pc = "dump_event"
    /\ \E io \in IoOutcomes :
          IF io = "ok"
          THEN /\ Put(<<bw.dir, "event.json">>, JsonDump(bw.event))
               /\ bw' = [Wrote(bw, "event.json") EXCEPT !.pc = "hash_event"]
          ELSE /\ Put(<<bw.dir, "event.json">>, Partial)
               /\ bw' = Aborted(Wrote(bw, "event.json"))
    /\ UNCHANGED <<svars, lvars, wvars, cvars>>

\* lines 50-58: the manifest dict with the digest of event.json
HashEventJson ==
    /\ bw.pc = "hash_event"
    /\ \E io \in IoOutcomes :
          bw' = IF io = "ok"
                THEN [bw EXCEPT
                        !.manifest = [event |-> [path |-> <<bw.dir, "event.json">>,
                                                 sha256 |-> Sha256File(<<bw.dir, "event.json">>)],
                                      artifacts |-> <<>>],
                        !.hashed = @ \cup {"event.json"},
                        !.pc = IF WritesSigmf(bw)
                               THEN "sigmf_data" ELSE "open_manifest"]
                ELSE Aborted(bw)
    /\ UNCHANGED <<fs, svars, lvars, wvars, cvars>>

\* sigmf.py lines 33-39: iq.tofile(data_path), which creates or truncates the file
WriteSigmfData ==
    /\ bw.pc = "sigmf_data"
    /\ \E io \in {"ok", "fail", "fail_open"} :
          IF io = "ok"
          THEN /\ Put(<<bw.dir, "capture.sigmf-data">>, ToFile(bw.iq))
               /\ bw' = [Wrote(bw, "capture.sigmf-data") EXCEPT
                           !.pc = "sigmf_open_meta"]
          ELSE /\ IF io = "fail"
                  THEN Put(<<bw.dir, "capture.sigmf-data">>, Partial)
                  ELSE UNCHANGED fs
               /\ bw' = Aborted(IF io = "fail"
                                THEN Wrote(bw, "capture.sigmf-data") ELSE bw)
    /\ UNCHANGED <<svars, lvars, wvars, cvars>>

\* sigmf.py line 64: meta_path.open("w")
OpenSigmfMeta ==
    /\ bw.pc = "sigmf_open_meta"
    /\ \E io \in IoOutcomes :
          IF io = "ok"
          THEN /\ Put(<<bw.dir, "capture.sigmf-meta">>, Truncated)
               /\ bw' = [Wrote(bw, "capture.sigmf-meta") EXCEPT
                           !.pc = "sigmf_dump_meta"]
          ELSE /\ bw' = Aborted(bw)
               /\ UNCHANGED fs
    /\ UNCHANGED <<svars, lvars, wvars, cvars>>

\* sigmf.py lines 41-65: the metadata, stamped with now, dumped as JSON
DumpSigmfMeta ==
    /\ bw.pc = "sigmf_dump_meta"
    /\ \E io \in IoOutcomes :
          IF io = "ok"
          THEN /\ Put(<<bw.dir, "capture.sigmf-meta">>,
                      JsonDump([frequency |-> bw.event.freq, datetime |-> bw.calls]))
               /\ bw' = [Wrote(bw, "capture.sigmf-meta") EXCEPT !.pc = "sigmf_hash"]
          ELSE /\ Put(<<bw.dir, "capture.sigmf-meta">>, Partial)
               /\ bw' = Aborted(Wrote(bw, "capture.sigmf-meta"))
    /\ UNCHANGED <<svars, lvars, wvars, cvars>>

\* sigmf.py lines 67-70: the two digests; bundles.py lines 61-69: the artifacts
HashSigmf ==
    /\ bw.pc = "sigmf_hash"
    /\ \E io \in IoOutcomes :
          bw' = IF io = "ok"
                THEN [bw EXCEPT
                        !.manifest.artifacts =
                            << [path |-> <<bw.dir, "capture.sigmf-data">>,
                                sha256 |-> Sha256File(<<bw.dir, "capture.sigmf-data">>)],
                               [path |-> <<bw.dir, "capture.sigmf-meta">>,
                                sha256 |-> Sha256File(<<bw.dir, "capture.sigmf-meta">>)] >>,
                        !.hashed = @ \cup {"capture.sigmf-data", "capture.sigmf-meta"},
                        !.pc = "open_manifest"]
                ELSE Aborted(bw)
    /\ UNCHANGED <<fs, svars, lvars, wvars, cvars>>

\* line 72: manifest_path.open("w")
OpenManifest ==
    /\ bw.pc = "open_manifest"
    /\ \E io \in IoOutcomes :
          IF io = "ok"
          THEN /\ Put(<<bw.dir, "manifest.json">>, Truncated)
               /\ bw' = [Wrote(bw, "manifest.json") EXCEPT !.pc = "dump_manifest"]
          ELSE /\ bw' = Aborted(bw)
               /\ UNCHANGED fs
    /\ UNCHANGED <<svars, lvars, wvars, cvars>>

\* line 73: json.dump(manifest, f, indent=2)
DumpManifest ==
    /\ bw.pc = "dump_manifest"
    /\ \E io \in IoOutcomes :
          IF io = "ok"
          THEN /\ Put(<<bw.dir, "manifest.json">>, JsonDump(bw.manifest))
               /\ bw' = [Wrote(bw, "manifest.json") EXCEPT !.pc = "return"]
          ELSE /\ Put(<<bw.dir, "manifest.json">>, Partial)
               /\ bw' = Aborted(Wrote(bw, "manifest.json"))
    /\ UNCHANGED <<svars, lvars, wvars, cvars>>

\* line 75: return bundle_dir
ReturnBundleDir ==
    /\ bw.pc = "return"
    /\ bw' = [bw EXCEPT !.pc = "idle"]
    /\ UNCHANGED <<fs, svars, lvars, wvars, cvars>>

BundleNext ==
    \/ WriteEventBundle \/ OpenEventJson \/ DumpEventJson \/ HashEventJson
    \/ WriteSigmfData \/ OpenSigmfMeta \/ DumpSigmfMeta \/ HashSigmf
    \/ OpenManifest \/ DumpManifest \/ ReturnBundleDir

---------------------------------------------------------------------------
(* SDRMainWindow: Start/Stop, the agent commands and scanner_finished      *)

\* ScannerThread objects created in one run of the model
MaxThreads == 3
Threads == 1 .. MaxThreads
\* step_mhz values of the scan controls
StepChoices == {0, 1}

WindowInit ==
    /\ \E scan \in BOOLEAN, step \in StepChoices :
          win = [scanner_thread |-> None,
                 state |-> [t \in Threads |-> "none"],
                 interruption |-> [t \in Threads |-> FALSE],
                 created |-> 0, queued |-> <<>>,
                 scan_mode |-> scan, step_mhz |-> step, reply |-> ""]

\* QThread.isRunning of the thread the window refers to
IsRunning(w) ==
    w.scanner_thread # None /\ w.state[w.scanner_thread] = "running"

\* lines 670-679 and _start_scanner, lines 622-667: nothing when the thread
\* referred to is running or the scan step is not positive; otherwise a new
\* ScannerThread is created, assigned to scanner_thread and started
start_pressed(w) ==
    IF IsRunning(w) \/ (w.scan_mode /\ w.step_mhz <= 0)
    THEN w
    ELSE LET t == w.created + 1 IN
         [w EXCEPT !.created = t, !.scanner_thread = t,
                   !.state[t] = "running"]

\* lines 682-686: requestInterruption on the thread referred to, if any
stop_pressed(w) ==
    IF w.scanner_thread # None
    THEN [w EXCEPT !.interruption[w.scanner_thread] = TRUE]
    ELSE w

\* the Start button
StartPressed ==
    /\ win.created < MaxThreads
    /\ win' = start_pressed(win)
    /\ UNCHANGED <<svars, lvars, bvars, cvars>>

\* the Stop button
StopPressed ==
    /\ win' = stop_pressed(win)
    /\ win' # win
    /\ UNCHANGED <<svars, lvars, bvars, cvars>>

\* lines 732-744: _agent_tune unchecks scan mode, calls start_pressed and
\* returns its reply to the chat panel
AgentTune ==
    /\ win.created < MaxThreads
    /\ win' = [start_pressed([win EXCEPT !.scan_mode = FALSE])
                 EXCEPT !.reply = "Tuning"]
    /\ UNCHANGED <<svars, lvars, bvars, cvars>>

\* lines 746-760: _agent_scan checks scan mode, sets the step and calls
\* start_pressed
AgentScan ==
    /\ win.created < MaxThreads
    /\ \E step \in StepChoices :
          win' = [start_pressed([win EXCEPT !.scan_mode = TRUE,
                                            !.step_mhz = step])
                    EXCEPT !.reply = "Scanning"]
    /\ UNCHANGED <<svars, lvars, bvars, cvars>>

\* lines 762-764: _agent_stop calls stop_pressed
AgentStop ==
    /\ win' = [stop_pressed(win) EXCEPT !.reply = "Stopping"]
    /\ win' # win
    /\ UNCHANGED <<svars, lvars, bvars, cvars>>

\* a scanner thread's run() returns, after an interruption or on its own
\* (source failure, end of stream, error): the thread is no longer running
\* and its 'finished' signal is queued for the window's thread
ThreadFinishes ==
    /\ \E t \in Threads :
          /\ win.state[t] = "running"
          /\ win' = [win EXCEPT !.state[t] = "finished",
                                !.queued = Append(@, t)]
    /\ UNCHANGED <<svars, lvars, bvars, cvars>>

\* lines 717-721: the slot scanner_finished, run for a queued notification
ScannerFinished ==
    /\ win.queued # <<>>
    /\ win' = [win EXCEPT !.scanner_thread = None, !.queued = Tail(@)]
    /\ UNCHANGED <<svars, lvars, bvars, cvars>>

WindowNext ==
    \/ StartPressed \/ StopPressed \/ AgentTune \/ AgentScan \/ AgentStop
    \/ ThreadFinishes \/ ScannerFinished

---------------------------------------------------------------------------
(* SDR.sdr_ingest.FileSDRSource                                            *)

\* longest file, in samples
MaxSamples == 3
\* largest num_samples asked of read_samples
MaxRequest == 4
\* read_samples calls made in one run of the model
MaxFileReads == 4

\* lines 155-160: np.load(filename); sample k of the file is written k
FileInit ==
    \E count \in 1 .. MaxSamples :
        fsrc = [file_data |-> [k \in 1 .. count |-> k], sample_count |-> count,
                file_ptr |-> 0, open |-> TRUE, center_freq |-> 0,
                reads |-> 0, num_samples |-> 0, block |-> <<>>, before |-> 0]

\* line 168: if self.file_ptr >= self.sample_count
ExhaustedStrict(ptr, count) == ptr > count
Exhausted(ptr, count) == ptr >= count

\* file_data[a:b] of a numpy array, 0 <= a
PySlice(seq, a, b) == SubSeq(seq, a + 1, Min(b, Len(seq)))

\* lines 162-170: read_samples(num_samples); 'before' counts the samples
\* returned by the earlier calls, modulo the length of the file
FileReadSamples ==
    /\ fsrc.reads < MaxFileReads
    /\ \E num_samples \in 1 .. MaxRequest :
          IF ~fsrc.open
          THEN fsrc' = [fsrc EXCEPT !.reads = @ + 1, !.num_samples = num_samples,
                                    !.block = <<>>]
          ELSE LET end_idx == Min(fsrc.file_ptr + num_samples, fsrc.sample_count)
                   samples == PySlice(fsrc.file_data, fsrc.file_ptr, end_idx)
               IN  fsrc' = [fsrc EXCEPT
                              !.file_ptr = IF Exhausted(end_idx, fsrc.sample_count)
                                           THEN 0 ELSE end_idx,
                              !.reads = @ + 1, !.num_samples = num_samples,
                              !.block = samples,
                              !.before = (@ + Len(fsrc.block)) % fsrc.sample_count]
    /\ UNCHANGED <<svars, lvars, bvars, wvars, fl, md, syn>>

\* lines 172-173: tune
FileTune ==
    /\ \E freq_hz \in {0, 1} :
          /\ fsrc.center_freq # freq_hz
          /\ fsrc' = [fsrc EXCEPT !.center_freq = freq_hz]
    /\ UNCHANGED <<svars, lvars, bvars, wvars, fl, md, syn>>

\* lines 175-176: close sets file_data to None
FileClose ==
    /\ fsrc.open
    /\ fsrc' = [fsrc EXCEPT !.open = FALSE]
    /\ UNCHANGED <<svars, lvars, bvars, wvars, fl, md, syn>>

FileNext == FileReadSamples \/ FileTune \/ FileClose

\* no file source
FileIdle ==
    fsrc = [file_data |-> <<>>, sample_count |-> 0, file_ptr |-> 0,
            open |-> FALSE, center_freq |-> 0, reads |-> MaxFileReads,
            num_samples |-> 0, block |-> <<>>, before |-> 0]

---------------------------------------------------------------------------
(* ScannerThread._build_frequency_list                                     *)

\* frequencies and steps are whole numbers of one unit (a channel raster)
MaxStart == 2
MaxSpan == 4
MaxStep == 3

\* len(np.arange(start, stop, step)) for step > 0: ceil((stop - start) / step),
\* here with the stop given in half units (stop2 = 2 * stop)
ArangeLen(start, stop2, step) ==
    IF stop2 - 2 * start <= 0 THEN 0
    ELSE (stop2 - 2 * start + 2 * step - 1) \div (2 * step)
\* np.arange: start + i * step for i in range(len)
Arange(start, stop2, step) ==
    [i \in 1 .. ArangeLen(start, stop2, step) |-> start + (i - 1) * step]

\* lines 94-99
build_frequency_list(scan_mode, start_freq, stop_freq, step_freq) ==
    IF scan_mode
    THEN IF step_freq <= 0
         THEN <<start_freq>>
         ELSE Arange(start_freq, 2 * stop_freq + step_freq, step_freq)
    ELSE <<start_freq>>

\* a ScannerThread constructed with freq_range = (start, stop, step); the
\* constructor takes any three numbers, stop below start included
FreqListInit ==
    \E scan \in BOOLEAN, start \in 0 .. MaxStart,
       stop \in 0 .. (MaxStart + MaxSpan), step \in -1 .. MaxStep :
        fl = [pc |-> "constructed", scan_mode |-> scan, start_freq |-> start,
              stop_freq |-> stop, step_freq |-> step, freq_list |-> <<>>]

\* line 136: freq_list = self._build_frequency_list()
BuildFrequencyList ==
    /\ fl.pc = "constructed"
    /\ fl' = [fl EXCEPT !.pc = "built",
                        !.freq_list = build_frequency_list(fl.scan_mode,
                                          fl.start_freq, fl.stop_freq, fl.step_freq)]
    /\ UNCHANGED <<svars, lvars, bvars, wvars, fsrc, md, syn>>

FreqListIdle ==
    fl = [pc |-> "off", scan_mode |-> FALSE, start_freq |-> 0, stop_freq |-> 0,
          step_freq |-> 0, freq_list |-> <<>>]

---------------------------------------------------------------------------
(* core.multi_demod.MultiChannelDemod                                      *)

\* process calls made in one run of the model
MaxProcessCalls == 2
\* longest block passed to process, in samples
MaxBlockLen == 2

Channels == 1 .. NumChannels
Modes == {"FM", "AM"}
\* ChannelConfig.squelch_linear values, on the scale of Powers
SquelchChoices == {squelch_linear}

\* signal_processing.compute_power: 0.0 for an empty array, else the RMS
\* magnitude (p)
compute_power(size, p) == IF size = 0 THEN 0 ELSE p
\* the length of demod's audio for a block of 'size' samples: FM
\* differentiates the phase (one sample fewer), AM keeps the length; the
\* resampler returns at least one sample for a non-empty input
AudioSize(mode, size) ==
    IF size = 0 THEN 0
    ELSE IF mode = "FM" THEN size - 1 ELSE size

\* lines 40-63: the channels after set_channels(cfgs)
DemodInit ==
    \E enabled \in [Channels -> BOOLEAN], mode \in [Channels -> Modes],
       squelch \in [Channels -> SquelchChoices] :
        md = [channels |-> [c \in Channels |->
                              [enabled |-> enabled[c], mode |-> mode[c],
                               squelch_linear |-> squelch[c],
                               last_audio |-> None, audio_rms |-> 0,
                               last_power |-> None]],
              calls |-> 0, size |-> 0, power |-> [c \in Channels |-> 0],
              before |-> <<>>, results |-> <<>>]

\* channel c is skipped as below squelch (line 81)
BelowSquelch(power_lin, ch) == power_lin < ch.squelch_linear

\* lines 71-97: the loop body for channel c, then the rest of the loop; acc
\* is [channels, results]; the audio of call k is written k, its RMS 1
RECURSIVE ProcessFrom(_, _, _, _, _)
ProcessFrom(c, acc, size, power, call) ==
    IF c > NumChannels THEN acc
    ELSE LET ch == acc.channels[c]
             power_lin == compute_power(size, power[c])
             measured == [ch EXCEPT !.last_power = power_lin]
         IN  IF ~ch.enabled
             THEN ProcessFrom(c + 1, acc, size, power, call)
             ELSE IF BelowSquelch(power_lin, ch)
             THEN ProcessFrom(c + 1,
                      [acc EXCEPT !.channels[c] =
                           [measured EXCEPT !.last_audio = None,
                                            !.audio_rms = 0]],
                      size, power, call)
             ELSE IF AudioSize(ch.mode, size) > 0
             THEN ProcessFrom(c + 1,
                      [acc EXCEPT !.channels[c] =
                           [measured EXCEPT !.last_audio = call,
                                            !.audio_rms = 1],
                                  !.results = Append(@, c)],
                      size, power, call)
             ELSE ProcessFrom(c + 1, [acc EXCEPT !.channels[c] = measured],
                              size, power, call)

\* lines 65-98: process(center_freq, samples); the mixed-down power of each
\* channel is an input
Process ==
    /\ md.calls < MaxProcessCalls
    /\ \E size \in 0 .. MaxBlockLen, power \in [Channels -> Powers] :
          LET call == md.calls + 1
              start == [channels |-> md.channels, results |-> <<>>]
              \* line 67: if samples.size == 0 or not self.channels
              done == IF size = 0 THEN start
                      ELSE ProcessFrom(1, start, size, power, call)
          IN  md' = [md EXCEPT !.channels = done.channels,
                               !.results = done.results,
                               !.before = md.channels,
                               !.calls = call, !.size = size, !.power = power]
    /\ UNCHANGED <<svars, lvars, bvars, wvars, fsrc, fl, syn>>

DemodIdle ==
    md = [channels |-> <<>>, calls |-> MaxProcessCalls, size |-> 0,
          power |-> <<>>, before |-> <<>>, results |-> <<>>]

---------------------------------------------------------------------------
(* SDR.sdr_ingest.SyntheticSDRSource                                       *)

\* largest sample rate, in samples per second
MaxRate == 2
\* largest num_samples asked of the synthetic source
MaxSynRequest == 4
\* the stream is followed for this many seconds of nominal time
MaxSeconds == 12

burst_period_s == 10
burst_on_s == 3

\* lines 191-193
SynInit ==
    \E sr \in 1 .. MaxRate :
        syn = [sample_rate |-> sr, sample_index |-> 0, n0 |-> 0,
               num_samples |-> 0, tone_on |-> FALSE]

\* lines 207-208: phase = (n0 / sr) % burst_period_s; tone_on = phase <
\* burst_on_s, in exact arithmetic: n0 mod (10 sr) < 3 sr
ToneOn(n0, sr) == (n0 % (burst_period_s * sr)) < burst_on_s * sr

\* lines 195-216: read_samples(num_samples): one tone decision for the whole
\* block, taken at its first sample
SynReadSamples ==
    /\ syn.sample_index < MaxSeconds * syn.sample_rate
    /\ \E num_samples \in 1 .. MaxSynRequest :
          syn' = [syn EXCEPT !.n0 = syn.sample_index,
                             !.num_samples = num_samples,
                             !.tone_on = ToneOn(syn.sample_index, syn.sample_rate),
                             !.sample_index = @ + num_samples]
    /\ UNCHANGED <<svars, lvars, bvars, wvars, fsrc, fl, md>>

SynIdle ==
    syn = [sample_rate |-> 1, sample_index |-> MaxSeconds, n0 |-> 0,
           num_samples |-> 0, tone_on |-> FALSE]

PartsIdle == FileIdle /\ FreqListIdle /\ DemodIdle /\ SynIdle

---------------------------------------------------------------------------
(* Specifications                                                          *)

ScannerIdle ==
    /\ cfg = [scan_mode |-> TRUE, save_bundles |-> TRUE, max_event_seconds |-> 2,
              min_event_seconds |-> 0, num_freqs |-> 1, source_type |-> "synthetic",
              enable_transcription |-> FALSE, hunt_mode |-> FALSE,
              dwell_seconds |-> 0, ui_interval |-> one_fps_period,
              multi_channels |-> 0]
    /\ s = [pc |-> "done", interruption |-> FALSE, sdr |-> "none",
            logger_open |-> FALSE, current_index |-> 0, freq |-> None,
            active_signal |-> FALSE, recording_freq |-> None,
            quiet_count |-> 0, since_active_started |-> None,
            since_ui_update |-> 0, power_linear |-> 0,
            too_long |-> FALSE, event_elapsed |-> 0,
            transcriber |-> FALSE, text |-> "", dwell_seconds |-> 0,
            audio_buffer |-> FALSE, raised_at |-> ""]
    /\ o = NoEffects

LoggerIdle ==
    /\ lg = [ring |-> <<>>, logged |-> <<>>, heap |-> [r \in Refs |-> None],
             locks |-> [l \in LockIds |-> 0], calls |-> 0]
    /\ wk = [w \in Workers |->
               [pc |-> "off", inst |-> 1, cur |-> None, n |-> None,
                ret |-> <<>>]]
    /\ held = NoCalls

BundleIdle ==
    /\ fs = [dirs |-> {}, files |-> [p \in Paths |-> Absent]]
    /\ bw = [pc |-> "off", calls |-> 0, event |-> None, iq |-> <<>>,
             save_sigmf |-> FALSE, dir |-> None, manifest |-> None,
             written |-> <<>>, hashed |-> {}]

\* no window: the scanner, the logger or the bundle writer is driven directly
WindowIdle ==
    win = [scanner_thread |-> None, state |-> [t \in Threads |-> "none"],
           interruption |-> [t \in Threads |-> FALSE],
           created |-> 0, queued |-> <<>>, scan_mode |-> FALSE, step_mhz |-> 0,
           reply |-> ""]

Init == ScannerInit /\ LoggerIdle /\ BundleIdle /\ WindowIdle /\ PartsIdle
Next == Run \/ RequestInterruption
Spec == Init /\ [][Next]_vars

WindowSpecInit ==
    WindowInit /\ ScannerIdle /\ LoggerIdle /\ BundleIdle /\ PartsIdle
SpecWindow == WindowSpecInit /\ [][WindowNext]_vars

LoggerSpecInit == LoggerInit /\ ScannerIdle /\ BundleIdle /\ WindowIdle /\ PartsIdle
SpecLogger == LoggerSpecInit /\ [][LoggerCalls]_vars
SpecLoggerCallers == LoggerSpecInit /\ [][LoggerCalls \/ CallerEdits]_vars

BundleSpecInit == BundleInit /\ ScannerIdle /\ LoggerIdle /\ WindowIdle /\ PartsIdle
SpecBundle == BundleSpecInit /\ [][BundleNext]_vars
\* the run loop keeps being scheduled; interruption is up to the environment
\* the thread keeps being scheduled; the runs are those of Spec with the
\* longest dwell and no minimum event duration
LiveConfigs ==
    {c \in Configs : c.min_event_seconds = 0 /\ c.dwell_seconds = MaxSleep}
LiveInit == ScannerStart(LiveConfigs) /\ LoggerIdle /\ BundleIdle /\ WindowIdle /\ PartsIdle
LiveSpec == LiveInit /\ [][Next]_vars /\ WF_vars(Run)

\* events followed through the ring, the event sink and the bundles
MaxEvents == 2
\* runs whose events are followed: bundles on, no dwell
OrderConfigs ==
    {c \in Configs : c.save_bundles /\ c.dwell_seconds = 0
                        /\ c.max_event_seconds = 2
                        /\ c.source_type \in {"synthetic", "rtl"}}
OrderInit ==
    /\ ScannerStartFollowing(OrderConfigs, MaxEvents)
    /\ LoggerIdle /\ BundleIdle /\ WindowIdle /\ PartsIdle
SpecOrder == OrderInit /\ [][Next]_vars

FileSpecInit ==
    /\ FileInit /\ FreqListIdle /\ DemodIdle /\ SynIdle
    /\ ScannerIdle /\ LoggerIdle /\ BundleIdle /\ WindowIdle
SpecFile == FileSpecInit /\ [][FileNext]_vars

FreqListSpecInit ==
    /\ FreqListInit /\ FileIdle /\ DemodIdle /\ SynIdle
    /\ ScannerIdle /\ LoggerIdle /\ BundleIdle /\ WindowIdle
SpecFreqList == FreqListSpecInit /\ [][BuildFrequencyList]_vars

DemodSpecInit ==
    /\ DemodInit /\ FileIdle /\ FreqListIdle /\ SynIdle
    /\ ScannerIdle /\ LoggerIdle /\ BundleIdle /\ WindowIdle
SpecDemod == DemodSpecInit /\ [][Process]_vars

\* blocks followed in the runs with a multi-channel demodulator
MaxAudioReads == 4
\* runs with a multi-channel demodulator on a source that may deliver short
\* blocks
AudioConfigs ==
    [scan_mode : BOOLEAN, save_bundles : {FALSE}, max_event_seconds : {2},
     min_event_seconds : {0}, num_freqs : {1}, source_type : {"soapy"},
     enable_transcription : {FALSE}, hunt_mode : {FALSE}, dwell_seconds : {0},
     ui_interval : {one_fps_period}, multi_channels : {0, NumChannels}]
AudioInit ==
    /\ ScannerStartCapturing(AudioConfigs, MaxAudioReads)
    /\ LoggerIdle /\ BundleIdle /\ WindowIdle /\ PartsIdle
SpecAudio == AudioInit /\ [][Next \/ MultiDemod]_vars

SynSpecInit ==
    /\ SynInit /\ FileIdle /\ FreqListIdle /\ DemodIdle
    /\ ScannerIdle /\ LoggerIdle /\ BundleIdle /\ WindowIdle
SpecSyn == SynSpecInit /\ [][SynReadSamples]_vars

\* runs whose blocks are followed: a hardware source, bundles on, no dwell,
\* with and without transcription
CaptureConfigs ==
    {c \in OptionConfigs :
        /\ ~c.hunt_mode /\ c.dwell_seconds = 0 /\ c.ui_interval = one_fps_period}
        \cup {c \in Configs :
                 /\ c.save_bundles /\ c.dwell_seconds = 0 /\ c.source_type = "rtl"
                 /\ c.scan_mode => c.num_freqs = 2}
CaptureInit ==
    /\ ScannerStartCapturing(CaptureConfigs, MaxReads)
    /\ LoggerIdle /\ BundleIdle /\ WindowIdle /\ PartsIdle
SpecCapture == CaptureInit /\ [][Next]_vars

\* runs whose bundle directories are followed against the wall clock: every
\* event is bundled (min_event_seconds 0) and events are cut after
\* max_event_seconds
StampConfigs ==
    {c \in Configs :
        /\ c.save_bundles /\ c.min_event_seconds = 0 /\ c.max_event_seconds = 2
        /\ c.dwell_seconds = 0 /\ c.source_type \in {"synthetic", "rtl"}}
StampInit ==
    /\ \E phase \in 0 .. (BlocksPerSecond - 1) :
          ScannerStartWith(StampConfigs,
              [Constructed EXCEPT !.stamp.follow = TRUE, !.stamp.phase = phase])
    /\ LoggerIdle /\ BundleIdle /\ WindowIdle /\ PartsIdle
SpecStamp == StampInit /\ [][Next]_vars

\* runs of the scanner with its optional features
OptionsInit == ScannerStart(OptionConfigs) /\ LoggerIdle /\ BundleIdle /\ WindowIdle /\ PartsIdle
SpecOptions == OptionsInit /\ [][Next]_vars

---------------------------------------------------------------------------
(* Claims about the scanner run loop                                       *)

\* the current iteration has run to its end, or the run ended in it
IterationOver == s.pc \in {"loop", "exit", "done", "crashed"}
\* the longest loop iteration while ACTIVE: one block read and the yield sleep
IterMax == MaxBlockTime + yield_sleep

\* C2: an IDLE->ACTIVE transition emits now_playing at most once; an ACTIVE
\* exit (event close) logs and emits exactly one event record and emits
\* audio_level(0.0) exactly once.
C2_OnePerTransition ==
    /\ Count("now_playing") <= (IF o.entered THEN 1 ELSE 0)
    /\ Count("log") <= 1 /\ Count("event") <= 1 /\ Count("level0") <= 1
    /\ (IterationOver /\ o.closing) =>
           (Count("log") = 1 /\ Count("event") = 1 /\ Count("level0") = 1)

\* C3: ACTIVE is entered only at the squelch test of a block read while not
\* ACTIVE with power_linear > squelch_linear; an event is closed only with
\* quiet_blocks >= 5 (the last five blocks read were all strictly below
\* squelch) or elapsed >= max_event_seconds; a block with power equal to
\* squelch neither opens an event nor counts as quiet (quiet_blocks becomes 0).
C3_SquelchTransitions ==
    [][ /\ (~s.active_signal /\ s'.active_signal) =>
              (s.pc = "squelch" /\ s.power_linear > squelch_linear)
        /\ (s.active_signal /\ ~s'.active_signal) =>
              /\ s.pc = "decide"
              /\ \/ s.quiet_count >= 5 /\ o.below_run >= 5
                 \/ s.since_active_started >= cfg.max_event_seconds
        /\ (s.pc = "squelch" /\ s.power_linear = squelch_linear) =>
              (s'.active_signal = s.active_signal)
        /\ (s.pc = "quiet" /\ s'.pc = "decide" /\ s.power_linear = squelch_linear) =>
              (s'.quiet_count = 0)
      ]_vars

\* an event was closed for quiet: five blocks below squelch, not too long
C3_Witness ==
    /\ o.closing /\ ~s.too_long /\ o.below_run = 5 /\ s.pc = "log"

\* C4: at an event close with save_bundles: elapsed >= min_event_seconds gives
\* exactly one write_event_bundle call and no 'skipped' string, elapsed <
\* min_event_seconds gives no bundle and exactly one 'skipped' string; the
\* event record was logged and emitted before either; without save_bundles
\* neither happens.
C4_BundleGating ==
    (IterationOver /\ o.closing) =>
        /\ (cfg.save_bundles /\ s.event_elapsed >= cfg.min_event_seconds) =>
               (Count("bundle") = 1 /\ Count("skipped") = 0)
        /\ (cfg.save_bundles /\ s.event_elapsed < cfg.min_event_seconds) =>
               (Count("bundle") = 0 /\ Count("skipped") = 1)
        /\ ~cfg.save_bundles => (Count("bundle") = 0 /\ Count("skipped") = 0)
        /\ \A i \in 1 .. Len(o.effects) :
               o.effects[i] \in {"bundle", "skipped"} =>
                  \E j, k \in 1 .. (i - 1) :
                     j < k /\ o.effects[j] = "log" /\ o.effects[k] = "event"

\* C5: once ACTIVE, the event is eventually closed and its record emitted
\* unless the loop is left (interruption, empty block, error), even if the
\* power never drops; and the duration recorded for an event is less than
\* max_event_seconds plus one loop iteration.
C5_EventEnds ==
    /\ s.active_signal ~>
           \/ o.closing /\ Count("event") = 1
           \/ s.pc \in {"exit", "done", "crashed"}
    /\ [](o.closing => s.event_elapsed < cfg.max_event_seconds + IterMax)

\* an event closed by the duration cap although no block was below squelch
C5_Witness ==
    /\ o.closing /\ s.too_long /\ o.below_run = 0 /\ Count("event") = 1
    /\ s.event_elapsed > cfg.max_event_seconds

\* C6: however the main loop is left, the source the run created is closed
\* exactly once and no source operation follows the close.
C6_SourceClosedOnce ==
    /\ (s.pc \in {"done", "crashed"} /\ s.sdr # "none") => o.sdr_closes = 1
    /\ o.sdr_closes <= 1
    /\ ~o.sdr_after_close

---------------------------------------------------------------------------
(* Claims about the event logger                                           *)

\* the ring bound the specification gives (default 200), scaled to the model
ring_bound == 1

\* the worker holds the ring's lock region: an append or a snapshot in progress
InCritical(w) == wk[w].pc \in {"append", "unlock", "r_copy", "r_unlock"}
Occurrences(seq, x) == Cardinality({i \in 1 .. Len(seq) : seq[i] = x})
\* the log_event call that created ref has left its with block
Appended(ref) ==
    /\ ref <= lg.calls
    /\ \A w \in Workers : wk[w].cur = ref => wk[w].pc = "journal"
LastN(seq, k) == SubSeq(seq, Len(seq) - k + 1, Len(seq))
\* the event records a recent_events call would see now
RingView == [i \in 1 .. Len(lg.ring) |-> lg.heap[lg.ring[i]]]

\* C7: with concurrent log_event calls through the same or different
\* EventLogger instances, every call's event is in the process-wide ring
\* exactly once when the call is over, and no ring append or recent_events
\* snapshot overlaps another (one process-wide lock serializes them).
C7_RingSerialized ==
    /\ \A w1, w2 \in Workers :
          (w1 # w2) => ~(InCritical(w1) /\ InCritical(w2))
    /\ \A ref \in Refs :
          /\ Occurrences(lg.ring, ref) <= 1
          /\ Appended(ref) => Occurrences(lg.ring, ref) = 1

\* both workers, on different instances, have logged and all calls are over
C7_Witness ==
    /\ wk[1].pc = "ret_event" /\ wk[2].pc = "ret_event"
    /\ wk[1].inst # wk[2].inst
    /\ lg.ring = <<wk[2].cur, wk[1].cur>>

\* C8: the process-wide ring never holds more than its bound of events, the
\* oldest being dropped first.
C8_RingBounded ==
    /\ Len(lg.ring) <= ring_bound
    /\ lg.ring = LastN([i \in 1 .. Len(lg.logged) |-> lg.logged[i].ref],
                       Min(ring_bound, Len(lg.logged)))

\* C9: for n >= 0, recent_events(n) returns the last min(n, size) events of the
\* ring, in insertion order (so at most n).
C9_RecentEvents ==
    \A w \in Workers :
        (wk[w].pc = "r_unlock") =>
            /\ Len(wk[w].ret) <= wk[w].n
            /\ wk[w].ret = LastN(lg.ring, Min(wk[w].n, Len(lg.ring)))

\* C10: no mutable alias of the ring is exposed: whatever callers do to the
\* lists and the event records they were handed, recent_events keeps returning
\* the records as they were logged; a returned list changes only by its
\* holder's own edits.
C10_NoMutableAlias ==
    /\ [](RingView = [i \in 1 .. Len(lg.logged) |-> lg.logged[i].rec])
    /\ [][\A w \in Workers :
            (held'[w].lst # held[w].lst) => (wk' = wk \/ wk[w].pc = "ret_list")]_vars

---------------------------------------------------------------------------
(* Claims about the bundle writer                                          *)

\* the files a complete manifest.json lists, with the digests it stores
Listed(m) ==
    {m.event} \cup {m.artifacts[i] : i \in 1 .. Len(m.artifacts)}
ManifestVerifies(dir) ==
    LET c == fs.files[<<dir, "manifest.json">>] IN
    IsJson(c) =>
        \A entry \in Listed(JsonLoad(c)) :
            /\ fs.files[entry.path] # Absent
            /\ Sha256File(entry.path) = entry.sha256

\* C1: during and after any sequence of write_event_bundle calls (aborted
\* calls and calls on the same bundle directory included), a manifest.json
\* that exists lists only files that exist with the digest it stores; when a
\* call returns, event.json decodes to the event passed in.
C1_ManifestIntegrity ==
    /\ \A dir \in BundleDirs : ManifestVerifies(dir)
    /\ (bw.pc = "return") =>
           /\ IsJson(fs.files[<<bw.dir, "event.json">>])
           /\ JsonLoad(fs.files[<<bw.dir, "event.json">>]) = bw.event

\* the place of each file in the order the specification gives
WriteRank(name) ==
    CASE name = "event.json" -> 1
      [] name = "capture.sigmf-data" -> 2
      [] name = "capture.sigmf-meta" -> 3
      [] name = "manifest.json" -> 4

\* C24: within one write_event_bundle call event.json is written first, then
\* (only when save_sigmf is set and the IQ is not empty) capture.sigmf-data
\* followed by capture.sigmf-meta, and manifest.json last; no listed file is
\* written again after its digest was computed; the artifacts list has zero
\* or two entries.
C24_ManifestLast ==
    /\ [](/\ \A i, j \in 1 .. Len(bw.written) :
                (i < j) => (WriteRank(bw.written[i]) <= WriteRank(bw.written[j]))
          /\ (bw.written # <<>>) => (bw.written[1] = "event.json")
          /\ (\E i \in 1 .. Len(bw.written) :
                  bw.written[i] \in {"capture.sigmf-data", "capture.sigmf-meta"})
                => (bw.save_sigmf /\ Len(bw.iq) > 0)
          /\ ("event.json" \in bw.hashed) =>
                (Len(bw.manifest.artifacts) \in {0, 2})
          /\ (bw.pc = "return") =>
                /\ bw.written[Len(bw.written)] = "manifest.json"
                /\ Len(bw.manifest.artifacts) =
                      (IF bw.save_sigmf /\ Len(bw.iq) > 0 THEN 2 ELSE 0)
                /\ ("capture.sigmf-data" \in Range(bw.written))
                      <=> (bw.save_sigmf /\ Len(bw.iq) > 0))
    /\ [][(bw'.written # bw.written /\ bw'.written # <<>>) =>
            (bw'.written[Len(bw'.written)] \notin bw.hashed)]_vars

\* a call with IQ has returned: all four files written, manifest.json last
C24_Witness ==
    /\ bw.pc = "return" /\ Len(bw.manifest.artifacts) = 2
    /\ bw.hashed = {"event.json", "capture.sigmf-data", "capture.sigmf-meta"}
    /\ bw.written = <<"event.json", "event.json", "capture.sigmf-data",
                      "capture.sigmf-meta", "capture.sigmf-meta",
                      "manifest.json", "manifest.json">>

---------------------------------------------------------------------------
(* Claims about failure handling                                           *)

\* the steps of run() in which nothing but a sink invocation can raise out of
\* the step: the device_info emits, the spectrum emit, the event emit and the
\* 'skipped' emit (get_info and write_event_bundle are inside a try)
SinkSteps == {"info", "spectrum", "emit_event", "bundle"}

\* C11: a failure raised by a sink invocation is swallowed at that
\* invocation: no step whose only possible failure is a sink failure ends
\* the run loop with an exception (which would also skip the state-machine
\* update, the logging in progress and the source/logger close).
C11_SinkFailureSwallowed ==
    [][(s.pc \in SinkSteps) => (s'.pc # "crashed")]_vars

\* C12: log_event never raises because a journal append fails: a call that
\* has appended its event to the ring and reached the journal writes always
\* returns the event.
C12_JournalFailureSwallowed ==
    [][\A w \in Workers :
          (wk[w].pc = "journal" /\ wk'[w].pc # "journal") =>
              (wk'[w].pc = "ret_event" /\ wk'[w].cur = wk[w].cur)]_vars

\* C13: a write_event_bundle failure during an event close does not leave
\* the run loop: the event record was logged and emitted before it, and the
\* iteration goes on to reset to IDLE and emit audio_level(0.0), ending at the
\* loop head for the next block.
C13_BundleFailureSwallowed ==
    /\ [][((s.pc = "bundle" /\ WritesBundle)
             \/ (Count("bundle_error") = 1
                   /\ s.pc \in {"hold", "reset", "advance"}))
            => (s'.pc # "crashed")]_vars
    /\ []((Count("bundle_error") = 1) =>
            /\ \E j, k, b \in 1 .. Len(o.effects) :
                  /\ j < k /\ k < b
                  /\ o.effects[j] = "log" /\ o.effects[k] = "event"
                  /\ o.effects[b] = "bundle_error"
            /\ (s.pc \in {"advance", "loop"}) =>
                  /\ ~s.active_signal /\ s.recording_freq = None
                  /\ s.since_active_started = None
                  /\ Count("level0") = 1)

\* a bundle write failed and the loop is at its head again, not interrupted
C13_Witness ==
    /\ Count("bundle_error") = 1 /\ s.pc = "loop" /\ ~s.interruption
    /\ Count("level0") = 1

\* C14: when source creation fails the run emits exactly one diagnostic
\* string on the event sink and ends without entering the main loop: no
\* device_info, spectrum, audio, now_playing or event record is emitted.
C14_CreateFailureStops ==
    (s.sdr = "none" /\ s.pc # "create") =>
        /\ s.pc \in {"returned", "crashed"}
        /\ o.effects = <<"diag">>

\* creation failed for an unknown source kind and the run has returned
C14_Witness ==
    /\ cfg.source_type \in {"file", "unknown"} /\ s.pc = "returned"
    /\ o.effects = <<"diag">>

\* C15: a failure of the per-event transcription does not prevent the event
\* from being logged: the event is logged and emitted exactly once with the
\* text "[Transcription Error]", and bundle gating and the reset to IDLE
\* follow as for any other event.
C15_TranscriptionFailure ==
    (IterationOver /\ o.closing /\ s.text = TranscriptionError) =>
        /\ Count("log") = 1 /\ Count("event") = 1
        /\ WritesBundle => (Count("bundle") = 1 /\ Count("skipped") = 0)
        /\ SkipsBundle => (Count("bundle") = 0 /\ Count("skipped") = 1)
        /\ ~s.active_signal /\ s.recording_freq = None
        /\ Count("level0") = 1

---------------------------------------------------------------------------
(* Claims about interruption and sweeping                                  *)

\* the run is about to start a phase of an iteration: tune, dwell, the block
\* read, an event close, a bundle write or the hold sleep
AtPhaseStart ==
    \/ s.pc \in {"tune", "dwell", "read"}
    \/ s.pc = "decide" /\ ClosesEvent
    \/ s.pc = "bundle" /\ WritesBundle
    \/ s.pc = "hold" /\ cfg.scan_mode

\* C16: the interrupt flag is inspected at the top of each iteration and
\* between the phases of an iteration, so once interruption is requested no
\* further phase is started.
C16_InterruptBetweenPhases ==
    [][(s.interruption /\ AtPhaseStart) => (s'.pc = s.pc)]_vars

\* C18: in scan mode an iteration that starts not ACTIVE tunes the source to
\* plan[idx] and dwells before it reads, and idx advances by one modulo
\* len(plan) at the end of every iteration that ends not ACTIVE (so an idle
\* sweep tunes plan[0], plan[1], ..., plan[len-1], plan[0], ...); in
\* non-scan mode idx never changes and tune is never called.
C18_SweepOrder ==
    /\ [][ /\ (s.pc = "loop" /\ s'.pc \notin {"loop", "exit"}) =>
                /\ s'.freq = s.current_index
                /\ s'.pc = IF cfg.scan_mode /\ ~s.active_signal
                           THEN "tune" ELSE "read"
           /\ (s.pc = "tune" /\ s'.pc # "tune") =>
                (s.freq = s.current_index /\ s'.pc \in {"dwell", "crashed"})
           /\ (s.pc = "dwell" /\ s'.pc # "dwell") => (s'.pc = "read")
           /\ (s.pc = "advance" /\ s'.pc # "advance") =>
                /\ s'.pc = "loop"
                /\ s'.current_index =
                      IF cfg.scan_mode /\ ~s.active_signal
                      THEN (IF s.current_index = cfg.num_freqs - 1
                            THEN 0 ELSE s.current_index + 1)
                      ELSE s.current_index
           /\ (s'.current_index # s.current_index) => (s.pc = "advance")
         ]_vars
    /\ [](~cfg.scan_mode => (s.current_index = 0 /\ s.pc # "tune"))

\* the sweep has gone round: plan[1] was tuned and idx is back at 0 for the
\* next tune
C18_Witness ==
    /\ cfg.scan_mode /\ cfg.num_freqs = 2 /\ s.pc = "tune"
    /\ s.current_index = 0 /\ s.freq = 0 /\ s.since_ui_update = 0
    /\ Count("spectrum") = 0 /\ ~s.interruption /\ s.quiet_count = 0
    /\ s.power_linear = 0 /\ o.below_run >= 2

\* C19: in hunt mode with scan_mode set, every dwell sleep performed while
\* not ACTIVE lasts at most 0.12 s whatever dwell_seconds was configured, the
\* first dwell of the run included.
C19_HuntDwellCapped ==
    [][(cfg.hunt_mode /\ cfg.scan_mode /\ ~s.active_signal
          /\ s.pc = "dwell" /\ s'.pc # "dwell")
         => (s.dwell_seconds <= hunt_dwell_max)]_vars

---------------------------------------------------------------------------
(* Claims about the spectrum rate limit                                    *)

\* C20: for every ui_max_fps > 0 two consecutive spectrum emissions of a run
\* are at least 1/ui_max_fps apart on the monotonic clock; a block that
\* arrives sooner produces no spectrum emission and is still passed on to the
\* squelch state machine.
C20_SpectrumRateLimit ==
    [][(s.pc = "spectrum" /\ s'.pc # "spectrum") =>
          IF s.since_ui_update >= cfg.ui_interval
          THEN TRUE
          ELSE o'.effects = o.effects /\ s'.pc = "squelch"]_vars

---------------------------------------------------------------------------
(* Claims about the order of emissions                                     *)

\* C21: every now_playing emission of a ScannerThread is made at an
\* IDLE->ACTIVE transition of its run loop and carries that transition's
\* active_freq; none is made at any other time, in particular none by the
\* constructor.
C21_NowPlayingOnEntry ==
    /\ o.ctor = <<>>
    /\ Count("now_playing") = (IF o.entered THEN 1 ELSE 0)
    /\ o.entered => (o.np_freq = s.freq /\ s.pc \notin {"squelch", "spectrum"})

\* C23: within one run the event records are appended to the ring, emitted
\* on the event sink and written as bundles in the order in which their
\* events closed (the order of the blocks that closed them); for each event
\* the ring append precedes the sink emission, which precedes the bundle
\* write.
C23_EventOrder ==
    /\ o.events.ring = [i \in 1 .. Len(o.events.ring) |-> i]
    /\ Len(o.events.ring) <= o.events.closed
    /\ StrictlyIncreasing(o.events.emitted)
    /\ StrictlyIncreasing(o.events.bundled)
    /\ Range(o.events.emitted) \subseteq Range(o.events.ring)
    /\ Range(o.events.bundled) \subseteq Range(o.events.emitted)

\* two events were closed, logged, emitted and bundled
C23_Witness ==
    /\ o.events.ring = <<1, 2>> /\ o.events.emitted = <<1, 2>>
    /\ o.events.bundled = <<1, 2>>

\* C22: in a run whose source was created, device_info is emitted exactly
\* once, after the source is created and before the first block is read and
\* before any spectrum, now_playing or event emission of the run.
C22_DeviceInfoOnce ==
    /\ (s.pc = "transcriber") => (o.effects = <<"device_info">>)
    /\ (Count("device_info") > 0) =>
          /\ s.sdr # "none"
          /\ s.pc \in {"transcriber", "loop", "exit", "done", "crashed"}
          /\ o.effects[1] = "device_info"
    /\ (s.pc \in {"tune", "dwell", "read"}) => (s.sdr = "open")

---------------------------------------------------------------------------
(* Claims about the sample sources                                         *)

\* C25: for a file of N >= 1 samples and num_samples >= 1, every
\* read_samples call before close returns a non-empty block of at most
\* num_samples samples that continues the file's samples where the previous
\* block ended, cyclically; a block never spans the wrap point.
C25_FileReadCyclic ==
    (fsrc.open /\ fsrc.reads > 0) =>
        /\ Len(fsrc.block) >= 1
        /\ Len(fsrc.block) <= fsrc.num_samples
        /\ fsrc.before + Len(fsrc.block) <= fsrc.sample_count
        /\ \A i \in 1 .. Len(fsrc.block) :
              fsrc.block[i] =
                  fsrc.file_data[((fsrc.before + i - 1) % fsrc.sample_count) + 1]
        /\ fsrc.file_ptr = (fsrc.before + Len(fsrc.block)) % fsrc.sample_count

\* the file was read to its end with a short block and read again from the
\* start
C25_Witness ==
    /\ fsrc.open /\ fsrc.sample_count = 3 /\ fsrc.reads = 3
    /\ fsrc.block = <<1, 2>> /\ fsrc.num_samples = 2 /\ fsrc.before = 0
    /\ fsrc.file_ptr = 2

---------------------------------------------------------------------------
(* Claims about suspension and the audio meter                             *)

\* C28: the scanner worker suspends only inside read_samples, the dwell
\* sleep, the hold sleep and bundle file I/O: whatever the source kind and
\* the scan mode, an iteration of the run loop sleeps nowhere else.
C28_SleepsOnlyDwellHold ==
    /\ \A i \in 1 .. Len(o.sleeps) : o.sleeps[i] \in {"dwell", "hold"}
    /\ Len(o.sleeps) <= 2

\* C29: when no sink fails, every audio chunk emitted (by the primary
\* demodulator or for a multi-channel result) comes with exactly one
\* audio_level value and every event close adds one audio_level(0.0):
\* between loop iterations the audio_level emissions are as many as the
\* audio_frame emissions plus the event closes.
C29_AudioLevelPerChunk ==
    (s.pc = "loop" /\ ~o.sink_failed) =>
        /\ Count("audio_level") = Count("audio_frame")
        /\ Count("level0") = (IF o.closing THEN 1 ELSE 0)

\* an iteration that emitted two multi-channel chunks and a primary chunk
\* and closed the event is over
C29_Witness ==
    /\ s.pc = "loop" /\ ~o.sink_failed /\ o.closing
    /\ Count("audio_frame") = 3 /\ Count("audio_level") = 3
    /\ Count("level0") = 1

---------------------------------------------------------------------------
(* Claims about the frequency plan                                         *)

\* C26: in scan mode with step > 0 and start <= stop the plan is start,
\* start+step, ... with no entry above stop, and it contains stop whenever
\* stop = start + k*step; in scan mode with step <= 0, and outside scan mode,
\* the plan is [start].
C26_FrequencyPlan ==
    (fl.pc = "built") =>
        IF fl.scan_mode /\ fl.step_freq > 0
        THEN (fl.start_freq <= fl.stop_freq) =>
             /\ Len(fl.freq_list) >= 1
             /\ \A i \in 1 .. Len(fl.freq_list) :
                   /\ fl.freq_list[i] = fl.start_freq + (i - 1) * fl.step_freq
                   /\ fl.freq_list[i] <= fl.stop_freq
             /\ (\E k \in 0 .. (MaxStart + MaxSpan) :
                    fl.stop_freq = fl.start_freq + k * fl.step_freq)
                   => (fl.stop_freq \in Range(fl.freq_list))
        ELSE fl.freq_list = <<fl.start_freq>>

\* C30: in the synthetic source's stream the tone is present on exactly the
\* first 3 s of every 10 s of nominal time (samples emitted so far / Fs) and
\* absent on the other 7 s, whatever block sizes read_samples is asked for:
\* sample k of the stream carries the tone iff (k mod 10 Fs) < 3 Fs.
C30_ToneBurst ==
    \A i \in 0 .. (syn.num_samples - 1) :
        syn.tone_on <=>
            (((syn.n0 + i) % (10 * syn.sample_rate)) < 3 * syn.sample_rate)

---------------------------------------------------------------------------
(* Claims about the multi-channel demodulator                              *)

\* the mixed-down power of channel c in the last process call
MixedPower(c) == compute_power(md.size, md.power[c])

\* C27: process returns at most one entry per enabled channel, in channel
\* order, exactly for the enabled channels whose mixed-down power is not
\* below the channel's squelch and whose audio is not empty; for an enabled
\* channel below squelch it clears last_audio and sets audio_rms to 0;
\* disabled channels are left unchanged.
C27_ProcessResults ==
    (md.calls > 0 /\ md.calls <= MaxProcessCalls /\ md.before # <<>>) =>
        /\ StrictlyIncreasing(md.results)
        /\ \A c \in Channels :
              LET ch == md.channels[c] IN
              /\ (c \in Range(md.results)) <=>
                     /\ ch.enabled
                     /\ MixedPower(c) >= ch.squelch_linear
                     /\ AudioSize(ch.mode, md.size) > 0
              /\ (ch.enabled /\ MixedPower(c) < ch.squelch_linear) =>
                     (ch.last_audio = None /\ ch.audio_rms = 0)
              /\ ~ch.enabled => (ch = md.before[c])

---------------------------------------------------------------------------
(* Claims about the window's scanner thread                                *)

RunningThreads == {t \in Threads : win.state[t] = "running"}

\* C17: under any interleaving of Start/Stop presses, agent tune/scan/stop
\* commands and 'finished' notifications, at most one ScannerThread run loop
\* is executing, and a running scanner thread is the one scanner_thread
\* refers to (so Stop can interrupt it).
C17_OneScannerThread ==
    /\ Cardinality(RunningThreads) <= 1
    /\ \A t \in RunningThreads : win.scanner_thread = t
---------------------------------------------------------------------------
(* Claims about how a run ends                                             *)

\* run() has returned: the loop was left and the exit code ran (lines 306-308),
\* or the early return of line 113
RunReturned == s.pc \in {"done", "returned"}
\* one of the blocking calls did not return: read_samples raised (the sleeps
\* always return; a transcription or bundle failure is caught)
BlockingCallFailed == s.pc = "crashed" /\ s.raised_at = "read"

\* C31: after an interruption is requested, provided every blocking call
\* (read_samples, dwell/hold sleep, transcription, bundle I/O) returns, run
\* eventually terminates, having read at most one further block from the
\* source after the request, with the source closed and the logger closed.
C31_InterruptTerminates ==
    /\ s.interruption ~>
           \/ s.pc = "done" /\ s.sdr # "open" /\ ~s.logger_open
           \/ BlockingCallFailed
    /\ [](o.reads_after_request <= 1)

\* C32: whenever run returns, on every termination path including the early
\* return after a source-construction failure, the EventLogger opened by the
\* constructor has been closed.
C32_LoggerClosedOnReturn == RunReturned => ~s.logger_open

---------------------------------------------------------------------------
(* Claims about the event being recorded                                   *)

\* C33: while ACTIVE the scanner neither retunes the source nor changes idx,
\* so at the start of every iteration in the ACTIVE state plan[idx] equals
\* active_freq (the test freq == recording_freq never fails while ACTIVE),
\* and the frequency stored in an event record is the frequency tuned when
\* that event began.
C33_ActiveFrequencyFixed ==
    [][ /\ (s.active_signal /\ s'.active_signal) =>
              (s'.current_index = s.current_index /\ o'.tuned = o.tuned)
        /\ (s.active_signal /\ s.pc = "loop") =>
              (s.current_index = s.recording_freq /\ o.tuned = o.tuned_at_open)
        /\ (s.active_signal /\ s.pc = "record") => s.freq = s.recording_freq
        /\ (s.pc = "log" /\ s'.pc # "log") => o'.record.freq = o.tuned_at_open
      ]_vars

\* an event that began on the second frequency of a sweep and went through
\* at least one further iteration has been logged
C33_Witness ==
    /\ cfg.scan_mode /\ s.pc = "emit_event" /\ o.record.freq = 1
    /\ o.tuned_at_open = 1 /\ s.event_elapsed >= 1

Closing ==
    \/ s.pc \in {"transcribe", "log", "emit_event", "bundle", "hold", "reset"}
    \/ s.pc = "crashed" /\ s.raised_at \in {"log", "emit_event", "bundle"}
\* the blocks numbered a .. b, in read order
Blocks(a, b) == [i \in 1 .. (b - a + 1) |-> a + i - 1]

LastK(seq, k) == SubSeq(seq, Len(seq) - k + 1, Len(seq))

\* C38: at the end of every loop iteration quiet_blocks is between 0 and 4
\* while ACTIVE and is 0 while not ACTIVE; hence every event that closes for
\* quiet spans at least 6 blocks, of which the last 5 are below squelch and
\* are included in its captured IQ.
C38_QuietBlocks ==
    /\ s.pc = "loop" =>
           IF s.active_signal
           THEN s.quiet_count \in 0 .. (quiet_threshold_blocks - 1)
           ELSE s.quiet_count = 0
    /\ (s.pc = "decide" /\ s.quiet_count >= quiet_threshold_blocks) =>
           /\ Len(o.cap.iq_buffer) >= 6
           /\ o.below_run >= 5
           /\ LastK(o.cap.iq_buffer, 5) = Blocks(o.cap.reads - 4, o.cap.reads)

\* an event of exactly six blocks is being closed for quiet
C38_Witness ==
    /\ s.pc = "log" /\ o.closing /\ ~s.too_long
    /\ Len(o.cap.iq_buffer) = 6 /\ o.below_run = 5

\* C39: the power_db stored in an event record is the power of the block
\* that closed the event (the last block appended to its IQ), not that of
\* the triggering block nor a maximum over the event, so for an event closed
\* for quiet it is below the squelch level; the duration_s stored is the
\* elapsed value compared with min_event_seconds for bundle gating.
C39_EventMetadataBelowSquelch ==
    /\ (o.record # NoRecord /\ s.pc \in {"emit_event", "bundle", "hold", "reset"}) =>
           /\ o.record.power_db = power_db(o.cap.last_power)
           /\ ~s.too_long => o.record.power_db < squelch_db
           /\ o.record.duration_s = s.event_elapsed
    /\ (o.record # NoRecord /\ cfg.save_bundles
            /\ s.pc \in {"hold", "reset", "advance", "loop"}) =>
           /\ Count("bundle") = 1 <=> o.record.duration_s >= cfg.min_event_seconds
           /\ Count("skipped") = 1 <=> o.record.duration_s < cfg.min_event_seconds

\* C39 as amended: as above, but for an event closed for quiet the closing
\* block's linear power is below squelch_linear, which puts the stored
\* power_db below 20 log10(squelch_linear + 1e-6) (not necessarily below
\* squelch_db).
C39_EventMetadata ==
    /\ (o.record # NoRecord /\ s.pc \in {"emit_event", "bundle", "hold", "reset"}) =>
           /\ o.record.power_db = power_db(o.cap.last_power)
           /\ ~s.too_long =>
                  /\ o.cap.last_power < squelch_linear
                  /\ o.record.power_db < power_db(squelch_linear)
           /\ o.record.duration_s = s.event_elapsed
    /\ (o.record # NoRecord /\ cfg.save_bundles
            /\ s.pc \in {"hold", "reset", "advance", "loop"}) =>
           /\ Count("bundle") = 1 <=> o.record.duration_s >= cfg.min_event_seconds
           /\ Count("skipped") = 1 <=> o.record.duration_s < cfg.min_event_seconds

\* an event closed for quiet on a silent block was logged and bundled: its
\* power_db is the floor's level, which is the squelch level
C39_Witness ==
    /\ s.pc = "hold" /\ ~s.too_long /\ o.cap.last_power = 0
    /\ o.record.power_db = squelch_db /\ o.record.duration_s >= 5
    /\ cfg.min_event_seconds = 3 /\ Count("bundle") = 1

\* C36: two distinct events of a run never share a bundle directory: every
\* write_event_bundle call made by the scanner targets a directory that no
\* earlier event wrote to, even when two events on the same frequency close
\* within the same timestamp second.
C36_BundleDirsDistinct == ~o.stamp.reused

---------------------------------------------------------------------------
(* Claims about the frequency plan of a run                                *)

\* C37: for every configuration (start, stop, step, scan_mode), including
\* stop < start with step > 0, the frequency plan built at the start of run
\* is non-empty, so plan[idx] and (idx + 1) mod len(plan) are defined in
\* every loop iteration.
C37_PlanNonEmpty == fl.pc = "built" => Len(fl.freq_list) > 0

---------------------------------------------------------------------------
(* Claims about the multi-channel step of the run loop                     *)

\* what the primary squelch state machine works on
SquelchState ==
    <<s.active_signal, s.recording_freq, s.quiet_count, s.current_index,
      s.audio_buffer, s.since_active_started, s.power_linear, o.cap.iq_buffer>>

\* C40: multi-channel processing is independent of the primary squelch
\* state machine: when configured it runs on every non-empty block read, in
\* IDLE as well as in ACTIVE, and neither its results nor a failure raised
\* inside it changes the scanner state (active flag, active_freq,
\* quiet_blocks, idx, IQ/audio buffers) or prevents the primary squelch step
\* for that block.
C40_MultiChannelIndependent ==
    [][ /\ (s.pc = "multi") =>
              /\ s'.pc \in {"multi", "squelch"}
              /\ SquelchState' = SquelchState
        /\ (cfg.multi_channels > 0 /\ s.pc = "spectrum"
                /\ s'.pc \notin {"spectrum", "crashed"}) => s'.pc = "multi"
        /\ (cfg.multi_channels > 0 /\ s.pc = "squelch") => o.multi # "none"
      ]_vars

\* the multi-channel step failed on a block read while ACTIVE and the block
\* went on through the squelch step into the recording
C40_Witness ==
    /\ cfg.multi_channels > 0 /\ o.multi = "failed" /\ s.active_signal
    /\ ~o.entered /\ s.pc = "quiet" /\ s.audio_buffer
    /\ Len(o.cap.iq_buffer) = 2

=============================================================================
